---- MODULE Spec2Model ----
(***************************************************************************)
(* Index preview pipeline of the index-management dashboards plugin:       *)
(*   - parseFieldOptions / compareFieldItem (utils/helpers)                *)
(*   - the intersection of the per-index field lists (mapToColumns)        *)
(*   - the Indices preview container (getIndices, onIndexChange,           *)
(*     onSearchChange) with its asynchronous backend calls.                *)
(*                                                                         *)
(* The specifications sharing the module:                                  *)
(*   SpecCollect    parseFieldOptions on bounded mapping trees             *)
(*   SpecIntersect  the reduce/filter/some intersection on bounded lists   *)
(*   SpecColumns    the type filter of mapToColumns / parseColumns         *)
(*   SpecProject    mapDataToTable on bounded documents and columns        *)
(*   Spec           the Indices container as an event-driven state machine *)
(*   SpecPreview    the first Indices container (PreviewIndices.tsx)       *)
(*   SpecPart001    the container fetching sample rows (part_001)          *)
(*   SpecPart002    the container with the first search bar (part_002)     *)
(*   SpecServer     the server handlers getIndices and searchIndexData     *)
(*   SpecDebounce   the debounced getIndices of the earlier containers     *)
(*   SpecDebounceLive  the same with fair backend, timers and clock        *)
(*   SpecFunction   the function component of part_001                     *)
(*   SpecGrid       the IndexPreview grid below the container              *)
(***************************************************************************)
EXTENDS Integers, Sequences, FiniteSets, TLC

VARIABLES
  \* ---- SpecCollect: one call parseFieldOptions(prefix, mappings)
  cPrefix,      \* the prefix argument
  cMappings,    \* the mappings argument (a mapping tree)
  cOut,         \* the returned FieldItem[]
  cPc,          \* "input" before the call, "done" / "threw" after it
  \* ---- SpecIntersect: one evaluation of allMappings.reduce(...)
  iAll,         \* allMappings: FieldItem[][]
  iFields,      \* the value of `fields`
  iPc,          \* "input" | "done" | "threw"
  \* ---- Spec: the Indices container
  state,        \* this.state of the component
  tasks,        \* handler invocations suspended at an await
  toasts,       \* number of notifications.toasts.addDanger calls so far
  nOps,         \* number of user events handled so far
  mounted,      \* componentDidMount has run
  lastOp,       \* history: the most recent select / filter event
  lastEvent,    \* history: the step taken last (handler call or response)
  reduceCalls,  \* history: lengths of allMappings at each reduce call
  \* ---- SpecColumns: fields.filter(...).map(...) of mapToColumns / parseColumns
  kFields,      \* the intersected FieldItem[]
  kPolicy,      \* which function runs: "mapToColumns" | "parseColumns"
  kColumns,     \* the returned ColumnInfo[]
  kPc,          \* "input" | "done"
  \* ---- SpecProject: one call mapDataToTable(data, columns)
  pData,        \* the data argument: the fetched documents
  pColumns,     \* the columns argument
  pRows,        \* the returned raw_data
  pPc,          \* "input" | "done"
  \* ---- history of the earlier Indices containers
  uncaught,     \* number of handler promises rejected with an uncaught error
  derefs,       \* backend results whose `response` was read: [call, ok]
  \* ---- SpecServer: one request to IndexService (server side)
  sCat,         \* the cluster's cat.indices rows, each with its data_stream
  sReq,         \* the request handled: handler name and parameters
  sErr,         \* the error the cluster call threw, if any
  sResp,        \* the body of the handler's response
  sPc,          \* "input" | "done"
  \* ---- SpecDebounce: this.getIndices wrapped by _.debounce
  dNow,         \* the clock, in ms
  dLastCallTime,\* lastCallTime of the debounce
  dLastArgs,    \* a call is held back for the trailing edge (lastArgs is set)
  dTimer,       \* the time the pending timer is due (timerId), if any
  dCalls,       \* history: the times of the calls of this.getIndices
  dInvokes,     \* history: the times the wrapped getIndices was invoked
  \* ---- SpecGrid: the IndexPreview component under the container's render
  gProps,       \* the columns and raw_data the container renders with
  gMounted,     \* an IndexPreview instance is mounted
  gPagination,  \* useState: {pageIndex, pageSize}
  gSortingColumns, \* useState: sortingColumns
  gVisibleColumns, \* useState: visibleColumns
  gToggled      \* history: setVisibleColumns was called since the mount

collectVars   == <<cPrefix, cMappings, cOut, cPc>>
intersectVars == <<iAll, iFields, iPc>>
orchVars      == <<state, tasks, toasts, nOps, mounted, lastOp, lastEvent,
                   reduceCalls>>
columnsVars   == <<kFields, kPolicy, kColumns, kPc>>
projectVars   == <<pData, pColumns, pRows, pPc>>
legacyVars    == <<uncaught, derefs>>
serverVars    == <<sCat, sReq, sErr, sResp, sPc>>
debounceVars  == <<dNow, dLastCallTime, dLastArgs, dTimer, dCalls, dInvokes>>
gridVars      == <<gProps, gMounted, gPagination, gSortingColumns, gVisibleColumns,
                   gToggled>>
restVars      == <<serverVars, debounceVars, gridVars>>
extraVars     == <<columnsVars, projectVars, legacyVars, restVars>>
vars          == <<collectVars, intersectVars, orchVars, extraVars>>

(***************************************************************************)
(* Optional values: JavaScript undefined / null is None, a present value   *)
(* v is Some(v).                                                           *)
(***************************************************************************)
None      == <<>>
Some(v)   == <<v>>
IsSome(o) == o # <<>>
Get(o)    == o[1]

\* A node of a mapping tree without a `type` / `path` property.
NoType == "<no type>"
NoPath == "<no path>"

(***************************************************************************)
(* Mapping trees.  A JavaScript object is the sequence of its own          *)
(* enumerable properties in for-in order; every element is a field node    *)
(*   [key, type, path, fields, properties]                                 *)
(* where fields / properties are None or Some(sub-mapping).                *)
(***************************************************************************)
FieldNode(k, t, p, f, pr) ==
  [key |-> k, type |-> t, path |-> p, fields |-> f, properties |-> pr]

(***************************************************************************)
(* parseFieldOptions (utils/helpers).                                      *)
(***************************************************************************)
\* the test of the first `if`
EmitsDescriptor(node) ==
  node.type # "object" /\ node.type # NoType /\ node.type # "nested"

\* the object literal pushed onto fieldsOption
Descriptor(prefix, node) ==
  [label |-> prefix \o node.key, type |-> node.type, path |-> node.path]

RECURSIVE parseFieldOptions(_, _)

\* one iteration of the for-in loop: what the three `if`s append
FieldOptionsOfPropsFirst(prefix, node) ==
  (IF EmitsDescriptor(node) THEN <<Descriptor(prefix, node)>> ELSE <<>>)
  \o (IF IsSome(node.properties)
        THEN parseFieldOptions(prefix \o node.key \o ".", Get(node.properties))
        ELSE <<>>)
  \o (IF IsSome(node.fields)
        THEN parseFieldOptions(prefix \o node.key \o ".", Get(node.fields))
        ELSE <<>>)

FieldOptionsOf(prefix, node) ==
  (IF EmitsDescriptor(node) THEN <<Descriptor(prefix, node)>> ELSE <<>>)
  \o (IF IsSome(node.fields)
        THEN parseFieldOptions(prefix \o node.key \o ".", Get(node.fields))
        ELSE <<>>)
  \o (IF IsSome(node.properties)
        THEN parseFieldOptions(prefix \o node.key \o ".", Get(node.properties))
        ELSE <<>>)

parseFieldOptions(prefix, mappings) ==
  IF mappings = <<>> THEN <<>>
  ELSE FieldOptionsOf(prefix, Head(mappings))
         \o parseFieldOptions(prefix, Tail(mappings))

(***************************************************************************)
(* The loop guard is `mappings.hasOwnProperty(field)`, a property lookup   *)
(* on the mapping object itself.  When the object has an own key named     *)
(* "hasOwnProperty", the lookup yields that field's node instead of        *)
(* Object.prototype.hasOwnProperty and the call throws a TypeError in the  *)
(* first iteration.  The recursion visits every `fields` / `properties`    *)
(* object, so the call throws iff some object of the tree has that key.    *)
(***************************************************************************)
ShadowKey == "hasOwnProperty"

RECURSIVE parseFieldOptionsThrows(_)
parseFieldOptionsThrows(mappings) ==
  \/ \E i \in 1..Len(mappings) : mappings[i].key = ShadowKey
  \/ \E i \in 1..Len(mappings) :
       \/ /\ IsSome(mappings[i].fields)
          /\ parseFieldOptionsThrows(Get(mappings[i].fields))
       \/ /\ IsSome(mappings[i].properties)
          /\ parseFieldOptionsThrows(Get(mappings[i].properties))


(***************************************************************************)
(* Addresses.  A node of a mapping tree is named by its address: the steps *)
(* <<branch, i>> from the root, i the position among the own keys, branch  *)
(* 0 at the root object, 1 below `fields`, 2 below `properties`.           *)
(***************************************************************************)
RECURSIVE AddrsFrom(_, _)
AddrsFrom(m, branch) ==
  UNION { LET nd == m[i]
              below ==
                (IF IsSome(nd.fields) THEN AddrsFrom(Get(nd.fields), 1) ELSE {})
                \cup (IF IsSome(nd.properties)
                        THEN AddrsFrom(Get(nd.properties), 2) ELSE {})
          IN  {<< <<branch, i>> >>} \cup { << <<branch, i>> >> \o a : a \in below }
        : i \in 1..Len(m) }

Addrs(m) == AddrsFrom(m, 0)

RECURSIVE NodeAt(_, _)
NodeAt(m, addr) ==
  LET nd == m[addr[1][2]]
  IN  IF Len(addr) = 1 THEN nd
      ELSE NodeAt(IF addr[2][1] = 1 THEN Get(nd.fields) ELSE Get(nd.properties),
                  Tail(addr))

(***************************************************************************)
(* Inputs of SpecCollect: the mapping trees with at most MaxNodes field    *)
(* nodes, keys drawn from Keys and ShadowKey (the own keys of one object   *)
(* are distinct) and (type, path) drawn from NodeKinds.  The backend's     *)
(* answer is built one field at a time: a field is appended to the root    *)
(* object or to the `fields` / `properties` object of an existing node.    *)
(***************************************************************************)
MaxNodes == 3

Keys == {"a", "b"}

NodeKinds ==
  { <<"keyword", NoPath>>, <<"alias", "tgt">>, <<"object", NoPath>>,
    <<"nested", NoPath>>, <<NoType, NoPath>> }

Prefixes == {"", "r."}

KeysOf(m) == { m[i].key : i \in 1..Len(m) }

\* the object below `branch` of node nd; an absent one counts as empty
SubMapping(nd, branch) ==
  LET sub == IF branch = 1 THEN nd.fields ELSE nd.properties
  IN  IF IsSome(sub) THEN Get(sub) ELSE <<>>

\* the tree m with node `new` appended to the object below `branch` of the
\* node at addr (to the root object when addr is empty)
RECURSIVE WithField(_, _, _, _)
WithField(m, addr, branch, new) ==
  IF addr = <<>> THEN Append(m, new)
  ELSE LET i  == addr[1][2]
           nd == m[i]
           b  == IF Len(addr) = 1 THEN branch ELSE addr[2][1]
           sub == WithField(SubMapping(nd, b), Tail(addr), branch, new)
       IN  [m EXCEPT ![i] = IF b = 1 THEN [nd EXCEPT !.fields = Some(sub)]
                                     ELSE [nd EXCEPT !.properties = Some(sub)]]

\* the own keys of the object a field would be appended to
SiblingKeys(m, addr, branch) ==
  IF addr = <<>> THEN KeysOf(m) ELSE KeysOf(SubMapping(NodeAt(m, addr), branch))

(***************************************************************************)
(* SpecCollect.                                                            *)
(***************************************************************************)
OrchIdle ==
  /\ state = [indices |-> <<>>, columns |-> <<>>, raw_data |-> Some(<<>>),
              sourceIndex |-> None, schema |-> None]
  /\ tasks = {}
  /\ toasts = 0
  /\ nOps = 0
  /\ mounted = FALSE
  /\ lastOp = None
  /\ lastEvent = None
  /\ reduceCalls = {}

IntersectIdle == iAll = <<>> /\ iFields = <<>> /\ iPc = "idle"

ColumnsIdle ==
  kFields = <<>> /\ kPolicy = "mapToColumns" /\ kColumns = <<>> /\ kPc = "idle"

ProjectIdle ==
  pData = <<>> /\ pColumns = <<>> /\ pRows = <<>> /\ pPc = "idle"

\* the parts of the module a specification does not exercise stay idle
LegacyIdle == uncaught = 0 /\ derefs = {}

ServerIdle ==
  sCat = <<>> /\ sReq = None /\ sErr = None /\ sResp = None /\ sPc = "idle"

DebounceIdle ==
  /\ dNow = 0 /\ dLastCallTime = None /\ dLastArgs = FALSE /\ dTimer = None
  /\ dCalls = <<>> /\ dInvokes = <<>>

GridIdle ==
  /\ gProps = None /\ gMounted = FALSE /\ gPagination = None
  /\ gSortingColumns = <<>> /\ gVisibleColumns = <<>> /\ gToggled = FALSE

RestIdle == ServerIdle /\ DebounceIdle /\ GridIdle

ExtraIdle == ColumnsIdle /\ ProjectIdle /\ LegacyIdle /\ RestIdle

CollectInit ==
  /\ cPrefix = ""
  /\ cMappings = <<>>
  /\ cOut = <<>>
  /\ cPc = "input"
  /\ IntersectIdle
  /\ OrchIdle
  /\ ExtraIdle

\* the backend's mapping gains one field
GrowMapping ==
  /\ cPc = "input"
  /\ Cardinality(Addrs(cMappings)) < MaxNodes
  /\ \E addr \in {<<>>} \cup Addrs(cMappings), branch \in {1, 2},
        k \in Keys \cup {ShadowKey}, kd \in NodeKinds :
       /\ addr = <<>> => branch = 1
       /\ k \notin SiblingKeys(cMappings, addr, branch)
       /\ cMappings' =
            WithField(cMappings, addr, branch, FieldNode(k, kd[1], kd[2], None, None))
  /\ UNCHANGED <<cPrefix, cOut, cPc, intersectVars, orchVars, extraVars>>

\* fieldsOption = parseFieldOptions(prefix, mappings)
Collect ==
  /\ cPc = "input"
  /\ \E p \in Prefixes :
       /\ cPrefix' = p
       /\ IF parseFieldOptionsThrows(cMappings)
            THEN cOut' = <<>> /\ cPc' = "threw"
            ELSE cOut' = parseFieldOptions(p, cMappings) /\ cPc' = "done"
  /\ UNCHANGED <<cMappings, intersectVars, orchVars, extraVars>>

CollectNext == GrowMapping \/ Collect

SpecCollect == CollectInit /\ [][CollectNext]_vars

(***************************************************************************)
(* Auxiliary notions for the properties of parseFieldOptions.              *)
(***************************************************************************)
\* the keys on the way from the root to the node at addr, joined by "."
RECURSIVE DottedKeys(_, _)
DottedKeys(m, addr) ==
  LET nd == m[addr[1][2]]
  IN  IF Len(addr) = 1 THEN nd.key
      ELSE nd.key \o "." \o
           DottedKeys(IF addr[2][1] = 1 THEN Get(nd.fields) ELSE Get(nd.properties),
                      Tail(addr))

IsLeafType(t) == t # NoType /\ t # "object" /\ t # "nested"

LeafAddrs(m) == { a \in Addrs(m) : IsLeafType(NodeAt(m, a).type) }

\* document order of addresses: an ancestor before its descendants, the
\* `fields` branch before the `properties` branch, own keys by position
RECURSIVE AddrBefore(_, _)
AddrBefore(a, b) ==
  IF a = <<>> THEN b # <<>>
  ELSE IF b = <<>> THEN FALSE
  ELSE IF a[1] = b[1] THEN AddrBefore(Tail(a), Tail(b))
  ELSE \/ a[1][1] < b[1][1]
       \/ a[1][1] = b[1][1] /\ a[1][2] < b[1][2]

RECURSIVE InDocumentOrder(_)
InDocumentOrder(S) ==
  IF S = {} THEN <<>>
  ELSE LET first == CHOOSE a \in S : \A b \in S \ {a} : AddrBefore(a, b)
       IN  <<first>> \o InDocumentOrder(S \ {first})

CollectDone == cPc = "done"
CollectCalled == cPc # "input"

\* the body of C3: a descriptor for an own key of `mappings` iff the node's
\* type is present and neither "object" nor "nested", with label = prefix +
\* key, type = node.type, path = node.path; no descriptor of a structural type
EmitsExactlyLeafTypes ==
    /\ \A i \in 1..Len(cMappings) :
         LET nd == cMappings[i]
             hits == { j \in 1..Len(cOut) : cOut[j].label = cPrefix \o nd.key }
         IN  /\ (hits # {}) <=>
                  (nd.type # NoType /\ nd.type # "object" /\ nd.type # "nested")
             /\ \A j \in hits : cOut[j].type = nd.type /\ cOut[j].path = nd.path
    /\ \A j \in 1..Len(cOut) : cOut[j].type \notin {"object", "nested", NoType}

\* C3: parseFieldOptions emits a descriptor for an own key of `mappings` iff
\* the node's type is present and neither "object" nor "nested"; that
\* descriptor has label = prefix + key, type = node.type, path = node.path;
\* and at no depth is a descriptor of type "object" or "nested" (or without
\* a type) emitted.  Violated: on a mapping with an own key named
\* "hasOwnProperty" the call throws and emits nothing for the leaf keys.
C3_EmitsExactlyLeafTypes == CollectCalled => EmitsExactlyLeafTypes

\* C3 restricted to the calls that return a list: holds.
C3_WhenReturned == CollectDone => EmitsExactlyLeafTypes

\* a returning call with a non-empty prefix whose tree holds a keyword
\* leaf below a nested node next to an object node: one descriptor comes out.
C3_Returned ==
  /\ CollectDone
  /\ cPrefix = "r."
  /\ Len(cMappings) = 2
  /\ cMappings[1].type = "nested"
  /\ IsSome(cMappings[1].properties)
  /\ cMappings[2].type = "object"
  /\ Len(cOut) = 1
  /\ cOut[1].label = "r.a.b"

\* the body of C4: as many descriptors as leaf nodes, labels exactly (with
\* multiplicity) the "."-joined key paths of those nodes
CountAndLabels ==
    /\ Len(cOut) = Cardinality(LeafAddrs(cMappings))
    /\ \A j \in 1..Len(cOut) :
         Cardinality({ k \in 1..Len(cOut) : cOut[k].label = cOut[j].label })
           = Cardinality({ a \in LeafAddrs(cMappings) :
                             cPrefix \o DottedKeys(cMappings, a) = cOut[j].label })

\* C4: for every mapping tree the number of descriptors equals the number of
\* nodes with a present non-object, non-nested type reachable through
\* `properties` and `fields`, and the labels are exactly (with multiplicity)
\* the "."-joined key paths of those nodes.  Violated: a tree with an own key
\* named "hasOwnProperty" has leaf nodes and the call on it throws.
C4_CountAndLabels == CollectCalled => CountAndLabels

\* C4 restricted to the calls that return a list: holds.
C4_WhenReturned == CollectDone => CountAndLabels

\* a returning call on a three-level chain a -> fields.b -> properties.a whose
\* leaf at depth three is emitted as "a.b.a".
C4_Returned ==
  /\ CollectDone
  /\ cPrefix = ""
  /\ \E a \in LeafAddrs(cMappings) :
       Len(a) = 3 /\ a[2][1] = 1 /\ a[3][1] = 2
  /\ \E j \in 1..Len(cOut) : cOut[j].label = "a.b.a"

\* C5: the list a call returns holds the leaf nodes in document order of the
\* supplied keys: sibling subtrees in key order, for one key its own
\* descriptor, then those of `fields`, then those of `properties`; keys are
\* not re-sorted.  (A call that throws returns no list to order.)
C5_DocumentOrder ==
  CollectDone =>
    LET order == InDocumentOrder(LeafAddrs(cMappings))
    IN  cOut = [ j \in 1..Len(order) |->
                   LET nd == NodeAt(cMappings, order[j])
                   IN  [label |-> cPrefix \o DottedKeys(cMappings, order[j]),
                        type  |-> nd.type,
                        path  |-> nd.path] ]

\* witness of C5: key "b" supplied before key "a", "b" a leaf with a
\* `properties` child: the output is b, b.<child>, a.
C5_Witness ==
  /\ CollectDone
  /\ cPrefix = ""
  /\ Len(cMappings) = 2
  /\ cMappings[1].key = "b" /\ cMappings[2].key = "a"
  /\ IsSome(cMappings[1].properties)
  /\ Len(cOut) = 3
  /\ cOut[1].label = "b" /\ cOut[2].label = "b.a" /\ cOut[3].label = "a"

\* witness of C5 (second half): one key that is a leaf with both a `fields`
\* and a `properties` child: own descriptor, then fields, then properties.
C5_WitnessBranches ==
  /\ CollectDone
  /\ Len(cMappings) = 1
  /\ IsSome(cMappings[1].fields) /\ IsSome(cMappings[1].properties)
  /\ Len(cOut) = 3
  /\ cOut[2].type = Get(cMappings[1].fields)[1].type
  /\ cOut[3].type = Get(cMappings[1].properties)[1].type
  /\ cOut[2].type # cOut[3].type

\* the body of C6: when `fields` and `properties` of one node both hold the
\* same key with a leaf type, both descriptors, carrying the same label, are
\* in the output
NoDeduplication ==
    \A a \in Addrs(cMappings) :
      LET nd == NodeAt(cMappings, a)
      IN  IsSome(nd.fields) /\ IsSome(nd.properties) =>
            \A f \in 1..Len(Get(nd.fields)), p \in 1..Len(Get(nd.properties)) :
              LET fn == Get(nd.fields)[f]
                  pn == Get(nd.properties)[p]
                  lbl == cPrefix \o DottedKeys(cMappings, a) \o "." \o fn.key
              IN  fn.key = pn.key /\ IsLeafType(fn.type) /\ IsLeafType(pn.type) =>
                    \E j, k \in 1..Len(cOut) :
                      /\ j < k
                      /\ cOut[j] = [label |-> lbl, type |-> fn.type, path |-> fn.path]
                      /\ cOut[k] = [label |-> lbl, type |-> pn.type, path |-> pn.path]

\* C6: no de-duplication: when `fields` and `properties` of one node both
\* hold the same key with a leaf type, both descriptors, carrying the same
\* label, are in the output.  Violated: when the shared key is
\* "hasOwnProperty" (or the tree holds that key elsewhere) the call throws and
\* neither descriptor appears.
C6_NoDeduplication == CollectCalled => NoDeduplication

\* C6 restricted to the calls that return a list: holds.
C6_WhenReturned == CollectDone => NoDeduplication

\* a returning call on node a with fields.b : keyword and properties.b :
\* keyword; the label "a.b" occurs twice in the output.
C6_Returned ==
  /\ CollectDone
  /\ cPrefix = ""
  /\ Len(cMappings) = 1
  /\ IsSome(cMappings[1].fields) /\ IsSome(cMappings[1].properties)
  /\ Get(cMappings[1].fields)[1].key = "b"
  /\ Get(cMappings[1].properties)[1].key = "b"
  /\ Get(cMappings[1].fields)[1].type = "keyword"
  /\ Get(cMappings[1].properties)[1].type = "keyword"
  /\ Cardinality({ j \in 1..Len(cOut) : cOut[j].label = "a.b" }) = 2


(***************************************************************************)
(* compareFieldItem (utils/helpers) and the intersection of mapToColumns / *)
(* parseColumns / onIndexChange:                                           *)
(*   allMappings.reduce((mappingA, mappingB) =>                            *)
(*     mappingA.filter((itemA) =>                                          *)
(*       mappingB.some((itemB) => compareFieldItem(itemA, itemB))))        *)
(***************************************************************************)
compareFieldItemWithPath(itemA, itemB) ==
  itemB.label = itemA.label /\ itemA.type = itemB.type /\ itemA.path = itemB.path

compareFieldItem(itemA, itemB) ==
  itemB.label = itemA.label /\ itemA.type = itemB.type

\* mappingB.some((itemB) => compareFieldItem(itemA, itemB))
SomeEqual(mappingB, itemA) ==
  \E j \in 1..Len(mappingB) : compareFieldItem(itemA, mappingB[j])

\* the reducer callback
ReducerTakesSecond(mappingA, mappingB) ==
  SelectSeq(mappingB, LAMBDA itemB : SomeEqual(mappingA, itemB))

Reducer(mappingA, mappingB) ==
  SelectSeq(mappingA, LAMBDA itemA : SomeEqual(mappingB, itemA))

RECURSIVE ReduceFrom(_, _)
ReduceFrom(acc, rest) ==
  IF rest = <<>> THEN acc
  ELSE ReduceFrom(Reducer(acc, Head(rest)), Tail(rest))

\* Array.prototype.reduce without an initial value throws a TypeError on an
\* empty array; otherwise the first element is the initial accumulator.
ReduceThrows(allMappings) == allMappings = <<>>

IntersectWithEmptyInitial(allMappings) == ReduceFrom(<<>>, allMappings)

Intersect(allMappings) == ReduceFrom(Head(allMappings), Tail(allMappings))

(***************************************************************************)
(* SpecIntersect: allMappings is filled by push, then reduced.  At most    *)
(* MaxSeqs lists holding at most MaxItems descriptors in total, drawn from *)
(* FieldItems.                                                             *)
(***************************************************************************)
MaxSeqs == 3
MaxItems == 4

FieldItems ==
  { [label |-> "a", type |-> "keyword", path |-> NoPath],
    [label |-> "a", type |-> "keyword", path |-> "tgt"],
    [label |-> "a", type |-> "long",    path |-> NoPath],
    [label |-> "b", type |-> "keyword", path |-> NoPath] }

RECURSIVE TotalLen(_)
TotalLen(ss) == IF ss = <<>> THEN 0 ELSE Len(Head(ss)) + TotalLen(Tail(ss))

CollectIdle == cPrefix = "" /\ cMappings = <<>> /\ cOut = <<>> /\ cPc = "idle"

IntersectInit ==
  /\ iAll = <<>>
  /\ iFields = <<>>
  /\ iPc = "input"
  /\ CollectIdle
  /\ OrchIdle
  /\ ExtraIdle

\* allMappings.push(...) for one more index of the response
PushMapping ==
  /\ iPc = "input"
  /\ Len(iAll) < MaxSeqs
  /\ iAll' = Append(iAll, <<>>)
  /\ UNCHANGED <<iFields, iPc, collectVars, orchVars, extraVars>>

\* the list pushed last holds one more descriptor
PushItem ==
  /\ iPc = "input"
  /\ iAll # <<>>
  /\ TotalLen(iAll) < MaxItems
  /\ \E item \in FieldItems :
       iAll' = [iAll EXCEPT ![Len(iAll)] = Append(@, item)]
  /\ UNCHANGED <<iFields, iPc, collectVars, orchVars, extraVars>>

\* const fields = allMappings.reduce(...)
Reduce ==
  /\ iPc = "input"
  /\ IF ReduceThrows(iAll)
       THEN iPc' = "threw" /\ iFields' = iFields
       ELSE iPc' = "done"  /\ iFields' = Intersect(iAll)
  /\ UNCHANGED <<iAll, collectVars, orchVars, extraVars>>

IntersectNext == PushMapping \/ PushItem \/ Reduce

SpecIntersect == IntersectInit /\ [][IntersectNext]_vars

IntersectDone == iPc = "done"

\* C7: two descriptors are equal for the intersection iff label and type are
\* both equal; path is not compared.  For two lists A, B: an item of A is in
\* the result iff B holds an item with the same label and the same type, so
\* items differing only in path match and a:keyword against a:long does not.
C7_EqualByLabelAndType ==
  IntersectDone /\ Len(iAll) = 2 =>
    \A i \in 1..Len(iAll[1]) :
      (\E r \in 1..Len(iFields) : iFields[r] = iAll[1][i])
        <=> (\E j \in 1..Len(iAll[2]) :
               /\ iAll[2][j].label = iAll[1][i].label
               /\ iAll[2][j].type = iAll[1][i].type)

\* witness of C7: A = [a:keyword(path tgt), a:long], B = [a:keyword(no path)]:
\* the first item is kept although the paths differ, a:long is dropped.
C7_Witness ==
  /\ IntersectDone
  /\ iAll = << << [label |-> "a", type |-> "keyword", path |-> "tgt"],
                  [label |-> "a", type |-> "long", path |-> NoPath] >>,
               << [label |-> "a", type |-> "keyword", path |-> NoPath] >> >>
  /\ iFields = << [label |-> "a", type |-> "keyword", path |-> "tgt"] >>

\* C8: for N >= 1 lists the result is exactly the items of the FIRST list
\* that have an equal (label and type) item in every other list, as the
\* first list's own items (its path values) and in the first list's order.
C8_FirstListFiltered ==
  IntersectDone =>
    iFields =
      SelectSeq(iAll[1],
                LAMBDA a : \A k \in 2..Len(iAll) :
                             \E j \in 1..Len(iAll[k]) :
                               /\ iAll[k][j].label = a.label
                               /\ iAll[k][j].type = a.type)

\* witness of C8: three lists; the result is the first list's a:keyword with
\* the first list's path, although the second list holds another path.
C8_Witness ==
  /\ IntersectDone
  /\ Len(iAll) = 3
  /\ Len(iAll[1]) = 2
  /\ iAll[1][2] = [label |-> "a", type |-> "keyword", path |-> "tgt"]
  /\ iAll[2] = << [label |-> "a", type |-> "keyword", path |-> NoPath] >>
  /\ iAll[3] = << [label |-> "a", type |-> "keyword", path |-> NoPath] >>
  /\ iFields = << [label |-> "a", type |-> "keyword", path |-> "tgt"] >>

\* C9: intersect([A]) = A and intersect([A, A]) = A, with the same items,
\* multiplicity and order, also when A repeats a label.
C9_IdentityAndIdempotent ==
  IntersectDone =>
    /\ Len(iAll) = 1 => iFields = iAll[1]
    /\ Len(iAll) = 2 /\ iAll[1] = iAll[2] => iFields = iAll[1]

\* witness of C9: [A, A] with A = [a:keyword, a:long], the label a repeated.
C9_Witness ==
  /\ IntersectDone
  /\ Len(iAll) = 2
  /\ iAll[1] = iAll[2]
  /\ iAll[1] = << [label |-> "a", type |-> "keyword", path |-> NoPath],
                  [label |-> "a", type |-> "long", path |-> NoPath] >>
  /\ iFields = iAll[1]


(***************************************************************************)
(* The Indices preview container (class component with getColumns /        *)
(* getData): state, backend, handlers.                                     *)
(*                                                                         *)
(* The backend holds two indices.  A getMappings answer is the list of     *)
(* [index, properties] entries of the response object; a search answer is  *)
(* the list of _source documents, each a function from field name to       *)
(* value.                                                                  *)
(***************************************************************************)
MaxOps == 3

Leaf(k, t) == FieldNode(k, t, NoPath, None, None)

\* GET _cat/indices, sorted by index descending
BackendIndices == <<"idx3", "idx2", "idx1">>

\* response of rollupService.getMappings(srcIndex)
MappingsOf(srcIndex) ==
  IF srcIndex = "idx3"
    THEN << [index |-> "idx3", properties |-> << Leaf("level", "keyword") >>] >>
  ELSE IF srcIndex = "idx1"
    THEN << [index |-> "idx1",
             properties |-> << Leaf("level", "keyword"), Leaf("message", "text"),
                               Leaf("size", "long") >>] >>
    ELSE << [index |-> "idx2",
             properties |-> << Leaf("level", "keyword"),
                               FieldNode("host", NoType, NoPath, None,
                                         Some(<< Leaf("name", "keyword") >>)) >>] >>

DocumentsOf(srcIndex) ==
  IF srcIndex = "idx3" THEN <<>>
  ELSE IF srcIndex = "idx1"
    THEN << [f \in {"level", "message", "size"} |->
               CASE f = "level" -> "error" [] f = "message" -> "m1" [] OTHER -> "1"],
            [f \in {"level", "message"} |->
               CASE f = "level" -> "info" [] OTHER -> "m2"] >>
    ELSE << [f \in {"level", "host"} |->
               CASE f = "level" -> "info" [] OTHER -> "{name}"],
            [f \in {"level"} |-> "warn"] >>

\* the parsed filters the search box can produce
Queries == {"level:error", "level:info"}

QueryValue(q) == IF q = "level:error" THEN "error" ELSE "info"

\* the documents of an index a search body matches: no query matches all
\* documents, a query level:v those whose level is v
SearchResults(srcIndex, query) ==
  IF query = None THEN DocumentsOf(srcIndex)
  ELSE SelectSeq(DocumentsOf(srcIndex),
                 LAMBDA d : d["level"] = QueryValue(Get(query)))

returnLimit == 1000

\* a search request that drops the filter
SearchRequestNoQuery(srcIndex, query) ==
  [index |-> srcIndex, from |-> 0, size |-> returnLimit, query |-> None]

\* the arguments getData passes to indexService.searchIndexData
SearchRequest(srcIndex, query) ==
  [index |-> srcIndex, from |-> 0, size |-> returnLimit, query |-> query]

\* hits.hits of a search: the matching documents from..from+size-1
Window(docs, from, size) ==
  SubSeq(docs, from + 1, IF from + size < Len(docs) THEN from + size ELSE Len(docs))

\* the `response` of an ok:true answer of searchIndexData
searchIndexData(req) ==
  [results      |-> Window(SearchResults(req.index, req.query), req.from, req.size),
   totalResults |-> Len(SearchResults(req.index, req.query))]

Undefined == "<undefined>"

(***************************************************************************)
(* data[i][column.id] is a property read on a document, an object parsed   *)
(* from JSON: an own field gives its value; a name the document does not   *)
(* hold is looked up on Object.prototype, which answers for its own member *)
(* names ("constructor", "toString", ...) and gives undefined otherwise.   *)
(***************************************************************************)
ObjectPrototypeKeys == {"constructor"}

Inherited(key) == "<Object.prototype." \o key \o ">"

PropertyOf(doc, key) ==
  IF key \in DOMAIN doc THEN doc[key]
  ELSE IF key \in ObjectPrototypeKeys THEN Inherited(key)
  ELSE Undefined

\* a projection that shows a placeholder row for an empty result
mapDataToTablePadded(data, columns) ==
  IF data = <<>>
    THEN << [ c \in { columns[j].id : j \in 1..Len(columns) } |-> Undefined ] >>
    ELSE [ i \in 1..Len(data) |->
             [ c \in { columns[j].id : j \in 1..Len(columns) } |->
                 PropertyOf(data[i], c) ] ]

\* mapDataToTable(data, columns)
mapDataToTable(data, columns) ==
  IF data = <<>> THEN <<>>
  ELSE [ i \in 1..Len(data) |->
           [ c \in { columns[j].id : j \in 1..Len(columns) } |->
               PropertyOf(data[i], c) ] ]

\* allMappings of mapToColumns: one parseFieldOptions result per index
AllMappingsOf(mappings) ==
  [ n \in 1..Len(mappings) |-> parseFieldOptions("", mappings[n].properties) ]

\* fields.map(field => ({id, type: "string"})) without the type filter
ColumnsOfAllFields(fields) ==
  [ j \in 1..Len(fields) |-> [id |-> fields[j].label, type |-> "string"] ]

\* fields.filter(keyword | text).map(field => ({id, type: "string"}))
ColumnsOfFields(fields) ==
  LET kept == SelectSeq(fields, LAMBDA f : f.type = "keyword" \/ f.type = "text")
  IN  [ j \in 1..Len(kept) |-> [id |-> kept[j].label, type |-> "string"] ]

\* parseColumns: fields.filter(keyword).map(field => ({id, type: "string"}))
ColumnsOfKeywordFields(fields) ==
  LET kept == SelectSeq(fields, LAMBDA f : f.type = "keyword")
  IN  [ j \in 1..Len(kept) |-> [id |-> kept[j].label, type |-> "string"] ]

\* mapToColumns(mappings), for a response with at least one index
mapToColumns(mappings) == ColumnsOfFields(Intersect(AllMappingsOf(mappings)))

\* mapToColumns throws when a parseFieldOptions call or the reduce throws
mapToColumnsThrows(mappings) ==
  \/ \E n \in 1..Len(mappings) : parseFieldOptionsThrows(mappings[n].properties)
  \/ ReduceThrows(AllMappingsOf(mappings))

(***************************************************************************)
(* SpecColumns: the filter / map tail of mapToColumns (keyword or text)    *)
(* and of parseColumns (keyword only) on the lists of at most MaxFields    *)
(* descriptors drawn from ColumnFieldItems.                                *)
(***************************************************************************)
MaxFields == 3

ColumnFieldItems ==
  { [label |-> l, type |-> t, path |-> NoPath] :
      l \in {"level", "message"}, t \in {"keyword", "text", "long"} }

ColumnsInit ==
  /\ kFields = <<>>
  /\ kPolicy = "mapToColumns"
  /\ kColumns = <<>>
  /\ kPc = "input"
  /\ CollectIdle
  /\ IntersectIdle
  /\ OrchIdle
  /\ ProjectIdle
  /\ LegacyIdle
  /\ RestIdle

\* the intersection holds one more descriptor
PushField ==
  /\ kPc = "input"
  /\ Len(kFields) < MaxFields
  /\ \E item \in ColumnFieldItems : kFields' = Append(kFields, item)
  /\ UNCHANGED <<kPolicy, kColumns, kPc, projectVars, legacyVars, restVars, collectVars, intersectVars, orchVars>>

\* const columns = fields.filter(...).map(...) of either function
FilterAndMap ==
  /\ kPc = "input"
  /\ \E policy \in {"mapToColumns", "parseColumns"} :
       /\ kPolicy' = policy
       /\ kColumns' = IF policy = "mapToColumns"
                        THEN ColumnsOfFields(kFields)
                        ELSE ColumnsOfKeywordFields(kFields)
  /\ kPc' = "done"
  /\ UNCHANGED <<kFields, projectVars, legacyVars, restVars, collectVars, intersectVars, orchVars>>

ColumnsNext == PushField \/ FilterAndMap

SpecColumns == ColumnsInit /\ [][ColumnsNext]_vars

ColumnsDone == kPc = "done"

\* the types a policy turns into columns
PassesTypeFilter(policy, type) ==
  IF policy = "parseColumns" THEN type = "keyword"
  ELSE type = "keyword" \/ type = "text"

MaxDocs == 2
MaxCols == 2

ProjectFields == {"level", "size"}
ProjectValues == {"x", "y"}
ProjectIds    == {"level", "message", "constructor"}

ProjectDocs ==
  UNION { [fs -> ProjectValues] : fs \in SUBSET ProjectFields }

ProjectInit ==
  /\ pData = <<>>
  /\ pColumns = <<>>
  /\ pRows = <<>>
  /\ pPc = "input"
  /\ CollectIdle
  /\ IntersectIdle
  /\ OrchIdle
  /\ ColumnsIdle
  /\ LegacyIdle
  /\ RestIdle

\* response.results holds one more document
PushDocument ==
  /\ pPc = "input"
  /\ Len(pData) < MaxDocs
  /\ \E doc \in ProjectDocs : pData' = Append(pData, doc)
  /\ UNCHANGED <<pColumns, pRows, pPc, columnsVars, legacyVars, restVars, collectVars, intersectVars, orchVars>>

\* the column set holds one more column
PushColumn ==
  /\ pPc = "input"
  /\ Len(pColumns) < MaxCols
  /\ \E id \in ProjectIds :
       pColumns' = Append(pColumns, [id |-> id, type |-> "string"])
  /\ UNCHANGED <<pData, pRows, pPc, columnsVars, legacyVars, restVars, collectVars, intersectVars, orchVars>>

\* raw_data = mapDataToTable(data, columns)
Project ==
  /\ pPc = "input"
  /\ pRows' = mapDataToTable(pData, pColumns)
  /\ pPc' = "done"
  /\ UNCHANGED <<pData, pColumns, columnsVars, legacyVars, restVars, collectVars, intersectVars, orchVars>>

ProjectNext == PushDocument \/ PushColumn \/ Project

SpecProject == ProjectInit /\ [][ProjectNext]_vars

ProjectDone == pPc = "done"

\* the body of C12 for the columns in `ids`: one row per document, in order;
\* the row's keys are the column ids; a column the document holds has the
\* document's value, a column the document lacks is undefined
RowsProject(ids) ==
  /\ Len(pRows) = Len(pData)
  /\ \A i \in 1..Len(pRows) :
       /\ DOMAIN pRows[i] = { pColumns[j].id : j \in 1..Len(pColumns) }
       /\ \A c \in DOMAIN pRows[i] \cap ids :
            pRows[i][c] = IF c \in DOMAIN pData[i] THEN pData[i][c] ELSE Undefined

\* C12: mapDataToTable yields one row per fetched document, in order, whose
\* keys are exactly the column ids: a document field that is not a column is
\* dropped, a column missing from the document is undefined in the row, and
\* the call always returns.  Violated: for a column named like a member of
\* Object.prototype ("constructor") that the document lacks, the row holds
\* the inherited member instead of undefined.
C12_RowsProjectColumns == ProjectDone => RowsProject(ProjectIds)

\* C12 restricted to the columns not named like a member of Object.prototype:
\* holds.
C12_PlainColumns == ProjectDone => RowsProject(ProjectIds \ ObjectPrototypeKeys)

\* a call on documents [{level, size}, {size}] and columns [level, message]:
\* size is dropped, the second row holds level and message as undefined.
C12_Projected ==
  /\ ProjectDone
  /\ Len(pData) = 2
  /\ DOMAIN pData[1] = {"level", "size"}
  /\ DOMAIN pData[2] = {"size"}
  /\ pColumns = << [id |-> "level", type |-> "string"],
                   [id |-> "message", type |-> "string"] >>
  /\ pRows[1] = [c \in {"level", "message"} |->
                   IF c = "level" THEN pData[1]["level"] ELSE Undefined]
  /\ pRows[2] = [c \in {"level", "message"} |-> Undefined]

\* schema built by onIndexChange
SchemaOf(columns) ==
  [strict |-> TRUE,
   fields |-> [ c \in { columns[j].id : j \in 1..Len(columns) } |->
                  [type |-> columns[CHOOSE j \in 1..Len(columns) :
                                       columns[j].id = c].type] ] ]

Option(name) == [label |-> name, value |-> name]

\* handler invocations suspended at an await; `query` is the argument of
\* getData, `req` the search request the invocation is waiting for
Task(id, kind, pc, srcIndex, value, columns, query, clean) ==
  [id |-> id, kind |-> kind, pc |-> pc, srcIndex |-> srcIndex, value |-> value,
   columns |-> columns, query |-> query, clean |-> clean,
   req |-> IF pc = "search" THEN Some(SearchRequest(srcIndex, query)) ELSE None]

\* the step taken last: which handler ran or which response arrived, for
\* which invocation, with which argument and outcome
Event(op, id, arg, outcome) ==
  [op |-> op, id |-> id, arg |-> arg, outcome |-> outcome]

InFlight(kind) == { t \in tasks : t.kind = kind }

\* the state set by the constructor; nothing is in flight
Init == OrchIdle /\ CollectIdle /\ IntersectIdle /\ ExtraIdle

\* componentDidMount: getIndices() runs up to its await
ComponentDidMount ==
  /\ ~mounted
  /\ mounted' = TRUE
  /\ tasks' = tasks \cup {Task(0, "list", "indices", "", None, <<>>, None, TRUE)}
  /\ lastEvent' = Some(Event("componentDidMount", 0, None, "called"))
  /\ UNCHANGED <<state, toasts, nOps, lastOp, reduceCalls, collectVars, intersectVars, extraVars>>

\* getIndices: the else branch and the catch both call toasts.addDanger
NotifiesOnlyNotOk(outcome) == outcome = "notOk"

NotifiesListFailure(outcome) == outcome # "ok"

\* getIndices resumes with the answer of indexService.getIndices
GetIndicesResponse ==
  \E t \in InFlight("list"), outcome \in {"ok", "notOk", "throws"} :
    /\ tasks' = tasks \ {t}
    /\ lastEvent' = Some(Event("getIndicesResponse", t.id, None, outcome))
    /\ state' = IF outcome = "ok"
                  THEN [state EXCEPT !.indices =
                          [ i \in 1..Len(BackendIndices) |-> Option(BackendIndices[i]) ]]
                  ELSE state
    /\ toasts' = IF NotifiesListFailure(outcome) THEN toasts + 1 ELSE toasts
    /\ UNCHANGED <<nOps, mounted, lastOp, reduceCalls, collectVars, intersectVars, extraVars>>

\* onIndexChange(value) up to the await in getColumns; value is [] or one of
\* the options the combo box offers
OnIndexChange ==
  /\ nOps < MaxOps
  /\ nOps' = nOps + 1
  /\ \E value \in {<<>>} \cup { <<state.indices[i]>> : i \in 1..Len(state.indices) } :
      /\ lastEvent' = Some(Event("onIndexChange", nOps + 1, value, "called"))
      /\ IF value = <<>> \/ value[1].value = ""
         THEN UNCHANGED <<tasks, lastOp>>
         ELSE /\ tasks' = tasks \cup
                   {Task(nOps + 1, "select", "mappings", value[1].value, Some(value),
                         <<>>, None, TRUE)}
              /\ lastOp' = Some([kind |-> "select", arg |-> value[1].value,
                                 overlapped |-> /\ InFlight("select") # {}
                                                /\ InFlight("filter") = {}])
  /\ UNCHANGED <<state, toasts, mounted, reduceCalls, collectVars, intersectVars, extraVars>>

\* getColumns resumes with the answer of rollupService.getMappings, returns
\* the columns, and getData runs up to its await
MappingsResponse ==
  \E t \in { t \in tasks : t.pc = "mappings" },
     outcome \in {"ok", "okNoIndex", "notOk", "throws"} :
    LET mappings == IF outcome = "ok" THEN MappingsOf(t.srcIndex) ELSE <<>>
        isOk     == outcome \in {"ok", "okNoIndex"}
        threw    == isOk /\ mapToColumnsThrows(mappings)
        columns  == IF isOk /\ ~threw THEN mapToColumns(mappings) ELSE <<>>
        reduced  == isOk /\ ~\E n \in 1..Len(mappings) :
                                parseFieldOptionsThrows(mappings[n].properties)
    IN  /\ reduceCalls' = IF reduced THEN reduceCalls \cup {Len(AllMappingsOf(mappings))}
                          ELSE reduceCalls
        /\ toasts' = IF isOk /\ ~threw THEN toasts ELSE toasts + 1
        /\ tasks' = (tasks \ {t}) \cup
                       {[t EXCEPT !.pc = "search", !.columns = columns,
                                  !.req = Some(SearchRequest(t.srcIndex, None))]}
        /\ lastEvent' = Some(Event("getMappingsResponse", t.id, None, outcome))
        /\ UNCHANGED <<state, nOps, mounted, lastOp, collectVars, intersectVars, extraVars>>

\* the arguments the search bar calls onSearchChange with: a parsed query,
\* or no query and the parse error
SearchChangeArgs ==
  { [query |-> Some(q), error |-> FALSE] : q \in Queries }
    \cup { [query |-> None, error |-> TRUE] }

\* onSearchChange: if (error) return
RejectsNoQuery(error) == FALSE

RejectsQuery(error) == error

\* onSearchChange({query, error}) up to the await in getData
OnSearchChange ==
  /\ nOps < MaxOps
  /\ nOps' = nOps + 1
  /\ \E args \in SearchChangeArgs :
     LET query == args.query
         error == args.error
     IN
      /\ lastEvent' = Some(Event("onSearchChange", nOps + 1, args.query,
                                 IF error THEN "error" ELSE "parsed"))
      /\ IF RejectsQuery(error)
         THEN UNCHANGED <<tasks, lastOp>>
         ELSE IF IsSome(state.sourceIndex) /\ Len(Get(state.sourceIndex)) > 0
                 /\ Get(state.sourceIndex)[1].value # ""
           THEN LET clean == InFlight("select") = {}
                IN  /\ tasks' = tasks \cup
                         {Task(nOps + 1, "filter", "search",
                               Get(state.sourceIndex)[1].value, None,
                               state.columns, query, clean)}
                    /\ lastOp' = Some([kind |-> "filter", arg |-> query,
                                       overlapped |->
                                         /\ clean
                                         /\ \E u \in InFlight("filter") : u.clean])
           ELSE UNCHANGED <<tasks, lastOp>>
  /\ UNCHANGED <<state, toasts, mounted, reduceCalls, collectVars, intersectVars, extraVars>>

\* getData resumes with the answer of indexService.searchIndexData and the
\* handler that awaited it calls setState
SearchResponse ==
  \E t \in { t \in tasks : t.pc = "search" }, outcome \in {"ok", "notOk", "throws"} :
    LET raw_data == IF outcome = "ok"
                      THEN Some(mapDataToTable(searchIndexData(Get(t.req)).results,
                                               t.columns))
                      ELSE None
    IN  /\ toasts' = IF outcome = "ok" THEN toasts ELSE toasts + 1
        /\ tasks' = tasks \ {t}
        /\ lastEvent' = Some(Event("searchResponse", t.id, t.kind, outcome))
        /\ state' = IF t.kind = "select"
                      THEN [state EXCEPT !.columns = t.columns,
                                         !.raw_data = raw_data,
                                         !.sourceIndex = t.value,
                                         !.schema = Some(SchemaOf(t.columns))]
                      ELSE [state EXCEPT !.raw_data = raw_data]
        /\ UNCHANGED <<nOps, mounted, lastOp, reduceCalls, collectVars, intersectVars, extraVars>>

Next ==
  \/ ComponentDidMount
  \/ GetIndicesResponse
  \/ OnIndexChange
  \/ MappingsResponse
  \/ OnSearchChange
  \/ SearchResponse

Spec == Init /\ [][Next]_vars

\* every select / filter handler has run to completion
Settled == InFlight("select") = {} /\ InFlight("filter") = {}

\* what the component shows for an index whose two fetches succeeded
ShowsIndex(srcIndex) ==
  /\ state.sourceIndex = Some(<<Option(srcIndex)>>)
  /\ state.columns = mapToColumns(MappingsOf(srcIndex))
  /\ state.raw_data =
       Some(mapDataToTable(SearchResults(srcIndex, None),
                           mapToColumns(MappingsOf(srcIndex))))

\* C1: a selectIndex issued while an earlier selectIndex was still waiting
\* for its mapping or row fetch wins: once every response has arrived (all
\* of them successful), the selected index, columns and rows are those of
\* the later selectIndex, in whatever order the responses resolved.
C1_LaterSelectWins ==
  /\ Settled
  /\ IsSome(lastOp)
  /\ Get(lastOp).kind = "select"
  /\ Get(lastOp).overlapped
  /\ toasts = 0
  => ShowsIndex(Get(lastOp).arg)

\* C2: when an applyFilter is issued while an earlier applyFilter's row
\* fetch is still outstanding (the selected index being settled), the rows
\* shown after both have resolved successfully are the result of the later
\* query, projected on the current columns.
C2_LaterFilterWins ==
  /\ Settled
  /\ IsSome(lastOp)
  /\ Get(lastOp).kind = "filter"
  /\ Get(lastOp).overlapped
  /\ toasts = 0
  => state.raw_data =
       Some(mapDataToTable(
              SearchResults(Get(state.sourceIndex)[1].value, Get(lastOp).arg),
              state.columns))

\* C10: whenever selectIndex runs the intersection (allMappings.reduce), it
\* runs it on at least one descriptor list, whatever indices the mapping
\* backend resolved the name to.
C10_IntersectorNeverOnEmpty == \A n \in reduceCalls : n >= 1

\* the last step was `op` with `outcome` (history)
LastStepWas(op, outcome) ==
  /\ IsSome(lastEvent)
  /\ Get(lastEvent).op = op
  /\ Get(lastEvent).outcome = outcome

\* an index is selected: the condition onSearchChange tests before fetching
IndexSelected ==
  /\ IsSome(state.sourceIndex)
  /\ Len(Get(state.sourceIndex)) > 0
  /\ Get(state.sourceIndex)[1].value # ""

\* C14: onSearchChange called with a parse error issues no backend call (no
\* invocation is left waiting for a response) and leaves rows, columns,
\* selected index and schema (the whole component state) as they were; no
\* notification is raised either.
C14_ParseErrorIsNoOp ==
  [][ LastStepWas("onSearchChange", "error")'
        => /\ state' = state
           /\ tasks' = tasks
           /\ toasts' = toasts ]_vars

\* witness of C14: a parse error reported while an index is selected and its
\* rows are displayed.
C14_Witness ==
  /\ LastStepWas("onSearchChange", "error")
  /\ IndexSelected
  /\ IsSome(state.raw_data)
  /\ Len(Get(state.raw_data)) > 0
  /\ state.columns # <<>>

\* C15: onSearchChange with a parsed query on a selected index issues one row
\* fetch for that index with from = 0, the size every select fetch uses and
\* the parsed query, leaving the state untouched; when that fetch answers
\* ok:true only raw_data is replaced (indices, sourceIndex, columns and schema
\* keep their values) and the new rows are the matching documents projected
\* on the column set the handler read from the state.
C15_FilterReplacesOnlyRows ==
  [][ /\ (LastStepWas("onSearchChange", "parsed")' /\ IndexSelected)
         => /\ state' = state
            /\ \E t \in tasks' \ tasks :
                 /\ tasks' = tasks \cup {t}
                 /\ t.kind = "filter"
                 /\ t.columns = state.columns
                 /\ t.req = Some([index |-> Get(state.sourceIndex)[1].value,
                                  from  |-> 0,
                                  size  |-> returnLimit,
                                  query |-> Get(lastEvent').arg])
                 /\ \A u \in tasks : IsSome(u.req) =>
                      /\ Get(u.req).from = Get(t.req).from
                      /\ Get(u.req).size = Get(t.req).size
      /\ (LastStepWas("searchResponse", "ok")' /\ Get(lastEvent').arg = "filter")
         => \E t \in tasks \ tasks' :
              /\ t.id = Get(lastEvent').id
              /\ LET docs == SelectSeq(DocumentsOf(Get(t.req).index),
                                       LAMBDA d : d["level"] =
                                         QueryValue(Get(Get(t.req).query)))
                      ids  == { t.columns[j].id : j \in 1..Len(t.columns) }
                      rows == [ i \in 1..Len(docs) |->
                                  [ c \in ids |-> IF c \in DOMAIN docs[i]
                                                    THEN docs[i][c] ELSE Undefined ] ]
                  IN  state' = [state EXCEPT !.raw_data = Some(rows)]
    ]_vars

\* witness of C15: the filter level:error answered ok:true on the selected
\* index idx1: one row, its columns level and message, index list kept.
C15_Witness ==
  /\ LastStepWas("searchResponse", "ok")
  /\ Get(lastEvent).arg = "filter"
  /\ state.sourceIndex = Some(<<Option("idx1")>>)
  /\ Len(state.indices) = Len(BackendIndices)
  /\ Len(state.columns) = 2
  /\ IsSome(state.raw_data)
  /\ Len(Get(state.raw_data)) = 1
  /\ Get(state.raw_data)[1]["level"] = "error"

\* C19: when the backend call of getIndices fails (ok:false or a thrown
\* error) one notification is raised, the state (and with it the index list)
\* keeps its value and the invocation ends without issuing another request.
C19_ListFailureNotifiesNoRetry ==
  [][ (\/ LastStepWas("getIndicesResponse", "notOk")'
       \/ LastStepWas("getIndicesResponse", "throws")')
        => /\ toasts' = toasts + 1
           /\ state' = state
           /\ tasks' \subseteq tasks
           /\ InFlight("list")' = {} ]_vars

\* witness of C19: the first load failed with a thrown error: one
\* notification, the index list still empty, nothing in flight.
C19_Witness ==
  /\ LastStepWas("getIndicesResponse", "throws")
  /\ state.indices = <<>>
  /\ toasts = 1
  /\ tasks = {}


(***************************************************************************)
(* The first Indices container (PreviewIndices.tsx): getIndices behind a   *)
(* debounce with an isLoading flag, and an onIndexChange that stores the   *)
(* selection first, builds one column per intersected field and fills the  *)
(* table with placeholder rows; it has no search.                          *)
(***************************************************************************)
LegacyState ==
  [isLoading |-> FALSE, indices |-> <<>>, columns |-> <<>>, raw_data |-> <<>>,
   mappings |-> <<>>, fields |-> <<>>, allMappings |-> <<>>, sourceIndex |-> None]

\* the state set by the constructor of the earlier containers
LegacyInit ==
  /\ state = LegacyState
  /\ tasks = {}
  /\ toasts = 0
  /\ nOps = 0
  /\ mounted = FALSE
  /\ lastOp = None
  /\ lastEvent = None
  /\ reduceCalls = {}
  /\ LegacyIdle
  /\ CollectIdle
  /\ IntersectIdle
  /\ ColumnsIdle
  /\ ProjectIdle
  /\ RestIdle

\* a handler invocation of the earlier containers suspended at an await
PendingCall(id, kind, pc, srcIndex, value, columns, req) ==
  [id |-> id, kind |-> kind, pc |-> pc, srcIndex |-> srcIndex, value |-> value,
   columns |-> columns, req |-> req]

\* fields.map(field => ({id: field.label}))
IdColumnsOfFields(fields) == [ j \in 1..Len(fields) |-> [id |-> fields[j].label] ]

\* componentDidMount: the debounced getIndices fires on the leading edge,
\* sets isLoading and runs up to its await
LegacyComponentDidMount ==
  /\ ~mounted
  /\ mounted' = TRUE
  /\ state' = [state EXCEPT !.isLoading = TRUE]
  /\ tasks' = tasks \cup {PendingCall(0, "list", "indices", "", None, <<>>, None)}
  /\ lastEvent' = Some(Event("componentDidMount", 0, None, "called"))
  /\ UNCHANGED <<toasts, nOps, lastOp, reduceCalls, legacyVars,
                 collectVars, intersectVars, columnsVars, projectVars, restVars>>

\* getIndices resumes with the answer of indexService.getIndices
LegacyGetIndicesResponse ==
  \E t \in InFlight("list"), outcome \in {"ok", "notOk", "throws"} :
    /\ tasks' = tasks \ {t}
    /\ lastEvent' = Some(Event("getIndicesResponse", t.id, t, outcome))
    /\ state' = IF outcome = "ok"
                  THEN [state EXCEPT
                          !.isLoading = FALSE,
                          !.indices = [ i \in 1..Len(BackendIndices) |->
                                          Option(BackendIndices[i]) ]]
                  ELSE state
    /\ toasts' = IF outcome = "ok" THEN toasts ELSE toasts + 1
    /\ derefs' = IF outcome = "throws" THEN derefs
                 ELSE IF outcome = "ok"
                   THEN derefs \cup {[call |-> "getIndices", ok |-> TRUE]}
                   ELSE derefs
    /\ UNCHANGED <<nOps, mounted, lastOp, reduceCalls, uncaught,
                   collectVars, intersectVars, columnsVars, projectVars, restVars>>

FakeRowCount == 99

\* the placeholder rows: for (let i = 1; i < 100; i++) row[column.id] = "test"
FakeRows(columns) ==
  [ i \in 1..FakeRowCount |->
      [ c \in { columns[j].id : j \in 1..Len(columns) } |-> "test" ] ]

\* onIndexChange(value) up to its await: the selection is stored first;
\* value[0].value on an empty selection throws outside the try
LegacyOnIndexChange ==
  /\ nOps < MaxOps
  /\ nOps' = nOps + 1
  /\ \E value \in {<<>>} \cup { <<state.indices[i]>> : i \in 1..Len(state.indices) } :
       /\ lastEvent' = Some(Event("onIndexChange", nOps + 1, value, "called"))
       /\ state' = [state EXCEPT !.sourceIndex = Some(value)]
       /\ IF value = <<>>
            THEN uncaught' = uncaught + 1 /\ tasks' = tasks
            ELSE /\ uncaught' = uncaught
                 /\ tasks' = IF value[1].value = "" THEN tasks
                             ELSE tasks \cup
                                    {PendingCall(nOps + 1, "select", "mappings",
                                                 value[1].value, Some(value), <<>>, None)}
  /\ UNCHANGED <<toasts, mounted, lastOp, reduceCalls, derefs,
                 collectVars, intersectVars, columnsVars, projectVars, restVars>>

\* onIndexChange resumes with the answer of rollupService.getMappings
PreviewMappingsResponse ==
  \E t \in { t \in tasks : t.pc = "mappings" },
     outcome \in {"ok", "okNoIndex", "notOk", "throws"} :
    LET mappings == IF outcome = "ok" THEN MappingsOf(t.srcIndex) ELSE <<>>
        isOk     == outcome \in {"ok", "okNoIndex"}
        threw    == isOk /\ mapToColumnsThrows(mappings)
        columns  == IdColumnsOfFields(Intersect(AllMappingsOf(mappings)))
    IN  /\ tasks' = tasks \ {t}
        /\ lastEvent' = Some(Event("getMappingsResponse", t.id, t, outcome))
        /\ derefs' = IF isOk THEN derefs \cup {[call |-> "getMappings", ok |-> TRUE]}
                     ELSE derefs
        /\ IF isOk /\ ~threw
             THEN /\ state' = [state EXCEPT !.columns = columns,
                                            !.raw_data = FakeRows(columns)]
                  /\ toasts' = toasts
             ELSE /\ state' = state
                  /\ toasts' = toasts + 1
        /\ UNCHANGED <<nOps, mounted, lastOp, reduceCalls, uncaught,
                       collectVars, intersectVars, columnsVars, projectVars, restVars>>

PreviewNext ==
  \/ LegacyComponentDidMount
  \/ LegacyGetIndicesResponse
  \/ LegacyOnIndexChange
  \/ PreviewMappingsResponse

SpecPreview == LegacyInit /\ [][PreviewNext]_vars

\* C16: when a step of selectIndex fails (the mapping fetch answers ok:false
\* or throws) the error is notified and the column set and the row set are
\* empty afterwards, so the newly selected index is never displayed with the
\* columns or rows of the index selected before.  Violated: the container
\* stores the new selection first and on failure only notifies; columns and
\* rows of the earlier index stay.
C16_FailureClearsColumnsAndRows ==
  (\/ LastStepWas("getMappingsResponse", "notOk")
   \/ LastStepWas("getMappingsResponse", "throws"))
    => /\ toasts > 0
       /\ state.columns = <<>>
       /\ state.raw_data = <<>>

\* the state the claim excludes, reached by selecting idx2 (mappings ok) and
\* then idx1 (mappings ok:false): idx1 is shown as selected over the columns
\* and placeholder rows built for idx2
C16_StaleColumnsShown ==
  /\ LastStepWas("getMappingsResponse", "notOk")
  /\ tasks = {}
  /\ toasts = 1
  /\ state.sourceIndex = Some(<<Option("idx1")>>)
  /\ state.columns = IdColumnsOfFields(Intersect(AllMappingsOf(MappingsOf("idx2"))))
  /\ Len(state.raw_data) = FakeRowCount


(***************************************************************************)
(* The Indices container of part_001 (class component): getIndices and the *)
(* first half of onIndexChange are those of the first container; after the *)
(* columns it fetches up to 100 documents and builds one row per counted   *)
(* hit, i < response.totalResults.                                         *)
(*                                                                         *)
(* Its backend holds idx1 with BigIndexDocs documents, more than one       *)
(* fetch returns, and idx2 as before.                                      *)
(***************************************************************************)
Part001ReturnLimit == 100

BigIndexDocs == 101

Part001DocumentsOf(srcIndex) ==
  IF srcIndex = "idx1"
    THEN [ i \in 1..BigIndexDocs |-> [f \in {"level"} |-> "info"] ]
    ELSE DocumentsOf(srcIndex)

\* searchIndexData(srcIndex, {from: 0, size: returnLimit}, "")
Part001SearchRequest(srcIndex) ==
  [index |-> srcIndex, from |-> 0, size |-> Part001ReturnLimit, query |-> None]

\* the `response` of an ok:true answer: hits.hits and hits.total.value
Part001SearchIndexData(req) ==
  [results      |-> Window(Part001DocumentsOf(req.index), req.from, req.size),
   totalResults |-> Len(Part001DocumentsOf(req.index))]

\* onIndexChange resumes with the answer of rollupService.getMappings and
\* runs up to the await of searchIndexData
Part001MappingsResponse ==
  \E t \in { t \in tasks : t.pc = "mappings" },
     outcome \in {"ok", "okNoIndex", "notOk", "throws"} :
    LET mappings == IF outcome = "ok" THEN MappingsOf(t.srcIndex) ELSE <<>>
        isOk     == outcome \in {"ok", "okNoIndex"}
        threw    == isOk /\ mapToColumnsThrows(mappings)
        columns  == IdColumnsOfFields(Intersect(AllMappingsOf(mappings)))
    IN  /\ lastEvent' = Some(Event("getMappingsResponse", t.id, t, outcome))
        /\ derefs' = IF isOk THEN derefs \cup {[call |-> "getMappings", ok |-> TRUE]}
                     ELSE derefs
        /\ IF isOk /\ ~threw
             THEN /\ tasks' = (tasks \ {t}) \cup
                        {[t EXCEPT !.pc = "search", !.columns = columns,
                                   !.req = Some(Part001SearchRequest(t.srcIndex))]}
                  /\ toasts' = toasts
             ELSE /\ tasks' = tasks \ {t}
                  /\ toasts' = toasts + 1
        /\ UNCHANGED <<state, nOps, mounted, lastOp, reduceCalls, uncaught,
                       collectVars, intersectVars, columnsVars, projectVars, restVars>>

\* the rows of the loop for (i = 0; i < totalResults; i++): row i reads
\* results[i][column.id] for every column
Part001Rows(response, columns) ==
  [ i \in 1..response.totalResults |->
      [ c \in { columns[j].id : j \in 1..Len(columns) } |->
          PropertyOf(response.results[i], c) ] ]

\* the loop reads a property of results[i] === undefined: TypeError
Part001RowsThrow(response, columns) ==
  columns # <<>> /\ response.totalResults > Len(response.results)

\* onIndexChange resumes with the answer of indexService.searchIndexData;
\* `response` is read without a test of `ok`
Part001SearchResponse ==
  \E t \in { t \in tasks : t.pc = "search" }, outcome \in {"ok", "notOk", "throws"} :
    LET response == Part001SearchIndexData(Get(t.req))
        threw    == \/ outcome # "ok"
                    \/ Part001RowsThrow(response, t.columns)
    IN  /\ tasks' = tasks \ {t}
        /\ lastEvent' = Some(Event("searchResponse", t.id, t, outcome))
        /\ derefs' = IF outcome = "throws" THEN derefs
                     ELSE derefs \cup {[call |-> "searchIndexData",
                                        ok |-> outcome = "ok"]}
        /\ IF threw
             THEN /\ state' = state
                  /\ toasts' = toasts + 1
             ELSE /\ state' = [state EXCEPT
                                 !.columns = t.columns,
                                 !.raw_data = Part001Rows(response, t.columns)]
                  /\ toasts' = toasts
        /\ UNCHANGED <<nOps, mounted, lastOp, reduceCalls, uncaught,
                       collectVars, intersectVars, columnsVars, projectVars, restVars>>

Part001Next ==
  \/ LegacyComponentDidMount
  \/ LegacyGetIndicesResponse
  \/ LegacyOnIndexChange
  \/ Part001MappingsResponse
  \/ Part001SearchResponse

SpecPart001 == LegacyInit /\ [][Part001Next]_vars

\* C13: a selectIndex whose mapping fetch and row fetch both answer ok:true
\* has issued its row fetch with from = 0, size = the row limit and no
\* filter, and ends with the columns it computed and exactly one row per
\* document the backend returned, hence at most row-limit rows, also when
\* totalResults exceeds the number of returned documents.  Violated: the
\* loop runs to totalResults and reads past the returned documents.
C13_OneRowPerReturnedDocument ==
  LastStepWas("searchResponse", "ok") =>
    LET t        == Get(lastEvent).arg
        returned == Part001SearchIndexData(Get(t.req)).results
    IN  /\ t.req = Some([index |-> t.srcIndex, from |-> 0,
                         size |-> Part001ReturnLimit, query |-> None])
        /\ state.columns = t.columns
        /\ Len(state.raw_data) = Len(returned)
        /\ Len(state.raw_data) <= Part001ReturnLimit

\* C13 on the indices whose documents all fit one fetch: holds.
C13_WhenAllReturned ==
  (LastStepWas("searchResponse", "ok")
     /\ Len(Part001DocumentsOf(Get(lastEvent).arg.srcIndex)) <= Part001ReturnLimit)
    => LET t == Get(lastEvent).arg
       IN  /\ state.columns = t.columns
           /\ Len(state.raw_data) = Len(Part001DocumentsOf(t.srcIndex))


(***************************************************************************)
(* The Indices container of part_002: getIndices as in the first           *)
(* container; onIndexChange fetches mappings and rows inside one try and   *)
(* stores columns, rows and selection together; onSearchChange fetches     *)
(* the filtered rows with no try around it.  Neither reads `ok` of the     *)
(* search answer before `response.results`.                                *)
(***************************************************************************)
Part002ReturnLimit == 500

\* searchIndexData(srcIndex, {from: 0, size: returnLimit}, {} | {query: q})
Part002SearchRequest(srcIndex, query) ==
  [index |-> srcIndex, from |-> 0, size |-> Part002ReturnLimit, query |-> query]

\* onIndexChange(value) up to its await; value[0].value on an empty
\* selection throws outside the try
Part002OnIndexChange ==
  /\ nOps < MaxOps
  /\ nOps' = nOps + 1
  /\ \E value \in {<<>>} \cup { <<state.indices[i]>> : i \in 1..Len(state.indices) } :
       /\ lastEvent' = Some(Event("onIndexChange", nOps + 1, value, "called"))
       /\ IF value = <<>>
            THEN uncaught' = uncaught + 1 /\ tasks' = tasks
            ELSE /\ uncaught' = uncaught
                 /\ tasks' = IF value[1].value = "" THEN tasks
                             ELSE tasks \cup
                                    {PendingCall(nOps + 1, "select", "mappings",
                                                 value[1].value, Some(value), <<>>, None)}
  /\ UNCHANGED <<state, toasts, mounted, lastOp, reduceCalls, derefs,
                 collectVars, intersectVars, columnsVars, projectVars, restVars>>

\* onIndexChange resumes with the answer of rollupService.getMappings and
\* runs up to the await of searchIndexData
Part002MappingsResponse ==
  \E t \in { t \in tasks : t.pc = "mappings" },
     outcome \in {"ok", "okNoIndex", "notOk", "throws"} :
    LET mappings == IF outcome = "ok" THEN MappingsOf(t.srcIndex) ELSE <<>>
        isOk     == outcome \in {"ok", "okNoIndex"}
        threw    == isOk /\ mapToColumnsThrows(mappings)
        columns  == IdColumnsOfFields(Intersect(AllMappingsOf(mappings)))
    IN  /\ lastEvent' = Some(Event("getMappingsResponse", t.id, t, outcome))
        /\ derefs' = IF isOk THEN derefs \cup {[call |-> "getMappings", ok |-> TRUE]}
                     ELSE derefs
        /\ IF isOk /\ ~threw
             THEN /\ tasks' = (tasks \ {t}) \cup
                        {[t EXCEPT !.pc = "search", !.columns = columns,
                                   !.req = Some(Part002SearchRequest(t.srcIndex, None))]}
                  /\ toasts' = toasts
             ELSE /\ tasks' = tasks \ {t}
                  /\ toasts' = toasts + 1
        /\ UNCHANGED <<state, nOps, mounted, lastOp, reduceCalls, uncaught,
                       collectVars, intersectVars, columnsVars, projectVars, restVars>>

\* onSearchChange({query, error}) up to its await
Part002OnSearchChange ==
  /\ nOps < MaxOps
  /\ nOps' = nOps + 1
  /\ \E args \in SearchChangeArgs :
       /\ lastEvent' = Some(Event("onSearchChange", nOps + 1, args.query,
                                  IF args.error THEN "error" ELSE "parsed"))
       /\ tasks' = IF ~args.error /\ IsSome(state.sourceIndex) /\ IsSome(args.query)
                     THEN tasks \cup
                            {PendingCall(nOps + 1, "filter", "search",
                                         Get(state.sourceIndex)[1].value, None,
                                         state.columns,
                                         Some(Part002SearchRequest(
                                                Get(state.sourceIndex)[1].value,
                                                args.query)))}
                     ELSE tasks
  /\ UNCHANGED <<state, toasts, mounted, lastOp, reduceCalls, legacyVars,
                 collectVars, intersectVars, columnsVars, projectVars, restVars>>

\* a handler resumes with the answer of indexService.searchIndexData and
\* reads searchIndexResponse.response.results at once: a TypeError for an
\* ok:false answer.  onIndexChange catches it (and a thrown transport
\* error) and notifies; onSearchChange has no try and its promise rejects.
Part002SearchResponse ==
  \E t \in { t \in tasks : t.pc = "search" }, outcome \in {"ok", "notOk", "throws"} :
    LET raw_data == mapDataToTable(searchIndexData(Get(t.req)).results, t.columns)
    IN  /\ tasks' = tasks \ {t}
        /\ lastEvent' = Some(Event("searchResponse", t.id, t, outcome))
        /\ derefs' = IF outcome = "throws" THEN derefs
                     ELSE derefs \cup {[call |-> "searchIndexData",
                                        ok |-> outcome = "ok"]}
        /\ state' = IF outcome # "ok" THEN state
                    ELSE IF t.kind = "select"
                      THEN [state EXCEPT !.columns = t.columns,
                                         !.raw_data = raw_data,
                                         !.sourceIndex = t.value]
                      ELSE [state EXCEPT !.raw_data = raw_data]
        /\ toasts' = IF outcome # "ok" /\ t.kind = "select" THEN toasts + 1 ELSE toasts
        /\ uncaught' = IF outcome # "ok" /\ t.kind = "filter" THEN uncaught + 1
                       ELSE uncaught
        /\ UNCHANGED <<nOps, mounted, lastOp, reduceCalls,
                       collectVars, intersectVars, columnsVars, projectVars, restVars>>

Part002Next ==
  \/ LegacyComponentDidMount
  \/ LegacyGetIndicesResponse
  \/ Part002OnIndexChange
  \/ Part002MappingsResponse
  \/ Part002OnSearchChange
  \/ Part002SearchResponse

SpecPart002 == LegacyInit /\ [][Part002Next]_vars

\* C17: in selectIndex and applyFilter the `response` of a backend result is
\* read only when its `ok` flag is true.  Violated: the search answer's
\* response.results is read whatever `ok` says.
C17_ResponseReadOnlyWhenOk == \A d \in derefs : d.ok

\* the last step was the answer `outcome` to a backend call
BackendAnswered(outcome) ==
  \/ LastStepWas("getIndicesResponse", outcome)
  \/ LastStepWas("getMappingsResponse", outcome)
  \/ LastStepWas("searchResponse", outcome)

\* C18: every backend failure (ok:false or a thrown error) during
\* listIndices, selectIndex or applyFilter ends in one notification and the
\* normal completion of the handler, never in an uncaught exception.
\* Violated: a failing row fetch of onSearchChange rejects the handler's
\* promise and notifies nobody.
C18_FailuresNotifiedNeverUncaught ==
  [][ (BackendAnswered("notOk")' \/ BackendAnswered("throws")')
        => /\ toasts' = toasts + 1
           /\ uncaught' = uncaught ]_vars


(***************************************************************************)
(* SpecServer: IndexService.getIndices and IndexService.searchIndexData,   *)
(* the server handlers behind indexService of the containers.  The cluster *)
(* holds at most MaxCat indices, each in a data stream or not, and answers *)
(* a call with its result or with one of ClusterErrors.  Every handler     *)
(* response has status 200; sResp is its body.                             *)
(***************************************************************************)
MaxCat == 3

CatNames == <<"idx3", "idx2", "idx1">>

NoStatus == 0
NoBody   == "<no body>"

\* errors thrown by callWithRequest: statusCode, body.error.type, message;
\* a transport error has neither a status code nor a body
ClusterErrors ==
  { [statusCode |-> 404, type |-> "index_not_found_exception", message |-> "no such index"],
    [statusCode |-> 404, type |-> "resource_not_found_exception", message |-> "not found"],
    [statusCode |-> 500, type |-> "index_not_found_exception", message |-> "internal"],
    [statusCode |-> 403, type |-> "security_exception", message |-> "no permissions"],
    [statusCode |-> NoStatus, type |-> NoBody, message |-> "No Living connections"] }

\* a test of the status code alone
IsNotFound(err) == err.statusCode = 404

\* err.statusCode === 404 && err.body.error.type === "index_not_found_exception"
IsIndexNotFound(err) ==
  err.statusCode = 404 /\ err.type = "index_not_found_exception"

\* the status _getManagedStatus reports: the explain answer, or "N/A" for
\* every index when the explain call fails
ManagedStatus(index, explainOk) ==
  IF ~explainOk THEN "N/A" ELSE IF index = "idx1" THEN "Yes" ELSE "No"

\* a listing that paginates first and removes data-stream indices after
GetIndicesBodyFilterAfterSlice(cat, from, size, showDataStreams, explainOk) ==
  LET paginatedIndices == Window(cat, from, size)
      filteredIndices  == IF showDataStreams THEN paginatedIndices
                          ELSE SelectSeq(paginatedIndices,
                                         LAMBDA i : i.data_stream = None)
  IN  [ok |-> TRUE,
       response |->
         [indices |-> [ k \in 1..Len(filteredIndices) |->
                          [index       |-> filteredIndices[k].index,
                           data_stream |-> filteredIndices[k].data_stream,
                           managed     |-> ManagedStatus(filteredIndices[k].index,
                                                         explainOk)] ],
          totalIndices |-> Len(cat)]]

\* the body getIndices answers with when no cluster call throws
GetIndicesBody(cat, from, size, showDataStreams, explainOk) ==
  LET filteredIndices  == IF showDataStreams THEN cat
                          ELSE SelectSeq(cat, LAMBDA i : i.data_stream = None)
      paginatedIndices == Window(filteredIndices, from, size)
  IN  [ok |-> TRUE,
       response |->
         [indices |-> [ k \in 1..Len(paginatedIndices) |->
                          [index       |-> paginatedIndices[k].index,
                           data_stream |-> paginatedIndices[k].data_stream,
                           managed     |-> ManagedStatus(paginatedIndices[k].index,
                                                         explainOk)] ],
          totalIndices |-> Len(filteredIndices)]]

\* the catch block of getIndices
GetIndicesCatch(err) ==
  IF IsIndexNotFound(err)
    THEN [ok |-> TRUE, response |-> [indices |-> <<>>, totalIndices |-> 0]]
    ELSE [ok |-> FALSE, error |-> err.message]

\* the catch block of searchIndexData
SearchIndexDataCatch(err) ==
  IF IsIndexNotFound(err)
    THEN [ok |-> TRUE, response |-> [results |-> <<>>, totalResults |-> 0]]
    ELSE [ok |-> FALSE, error |-> err.message]

ServerInit ==
  /\ sCat = <<>>
  /\ sReq = None
  /\ sErr = None
  /\ sResp = None
  /\ sPc = "input"
  /\ CollectIdle
  /\ IntersectIdle
  /\ OrchIdle
  /\ ColumnsIdle
  /\ ProjectIdle
  /\ LegacyIdle
  /\ DebounceIdle
  /\ GridIdle

\* the cluster holds one more index, in a data stream or not
AddCatIndex ==
  /\ sPc = "input"
  /\ Len(sCat) < MaxCat
  /\ Len(sCat) < Len(CatNames)
  /\ \E ds \in {None, Some("ds1")} :
       sCat' = Append(sCat, [index |-> CatNames[Len(sCat) + 1], data_stream |-> ds])
  /\ UNCHANGED <<sReq, sErr, sResp, sPc, columnsVars, projectVars, legacyVars,
                 debounceVars, gridVars, collectVars, intersectVars, orchVars>>

\* IndexService.getIndices handles one request
ServerGetIndices ==
  /\ sPc = "input"
  /\ \E from \in 0..MaxCat, size \in 0..MaxCat, showDataStreams \in BOOLEAN,
        explainOk \in BOOLEAN, err \in {None} \cup { Some(e) : e \in ClusterErrors } :
       /\ sReq' = Some([handler |-> "getIndices", from |-> from, size |-> size,
                         showDataStreams |-> showDataStreams])
       /\ sErr' = err
       /\ sResp' = Some(IF err = None
                          THEN GetIndicesBody(sCat, from, size, showDataStreams, explainOk)
                          ELSE GetIndicesCatch(Get(err)))
  /\ sPc' = "done"
  /\ UNCHANGED <<sCat, columnsVars, projectVars, legacyVars,
                 debounceVars, gridVars, collectVars, intersectVars, orchVars>>

\* IndexService.searchIndexData handles one request
ServerSearchIndexData ==
  /\ sPc = "input"
  /\ \E index \in {"idx1", "idx2"}, from \in 0..MaxCat, size \in 0..MaxCat,
        query \in {None} \cup { Some(q) : q \in Queries },
        err \in {None} \cup { Some(e) : e \in ClusterErrors } :
       LET req == [index |-> index, from |-> from, size |-> size, query |-> query]
       IN  /\ sReq' = Some([handler |-> "searchIndexData", index |-> index,
                             from |-> from, size |-> size, query |-> query])
           /\ sErr' = err
           /\ sResp' = Some(IF err = None
                              THEN [ok |-> TRUE, response |-> searchIndexData(req)]
                              ELSE SearchIndexDataCatch(Get(err)))
  /\ sPc' = "done"
  /\ UNCHANGED <<sCat, columnsVars, projectVars, legacyVars,
                 debounceVars, gridVars, collectVars, intersectVars, orchVars>>

ServerNext == AddCatIndex \/ ServerGetIndices \/ ServerSearchIndexData

SpecServer == ServerInit /\ [][ServerNext]_vars

ServerDone == sPc = "done"

C20_WitnessOtherError ==
  /\ ServerDone
  /\ Get(sReq).handler = "getIndices"
  /\ IsSome(sErr)
  /\ Get(sErr).type = "resource_not_found_exception"
  /\ Get(sResp) = [ok |-> FALSE, error |-> "not found"]


(***************************************************************************)
(* SpecDebounce: the constructor of the earlier containers replaces        *)
(* this.getIndices by _.debounce(this.getIndices, 500, {leading: true}).   *)
(* The debounce is lodash's: lastCallTime, lastArgs and timerId are its    *)
(* closure variables, `trailing` keeps its default true and there is no    *)
(* maxWait.  The clock advances in steps of TickMs; a timer that is due    *)
(* fires before the clock advances.  In the sources only componentDidMount *)
(* calls this.getIndices; the later calls are calls of the same public     *)
(* method by any other caller.                                             *)
(***************************************************************************)
debounceWait == 500

TickMs   == 250
MaxTicks == 5
MaxCalls == 3

\* {leading: true}, and lodash's default for `trailing`
DebounceLeading  == TRUE
DebounceTrailing == TRUE

\* shouldInvoke(time) of the debounce (no maxWait; the clock never runs back)
shouldInvoke(time) ==
  dLastCallTime = None \/ time - Get(dLastCallTime) >= debounceWait

\* remainingWait(time) of the debounce
remainingWait(time) == debounceWait - (time - Get(dLastCallTime))

DebounceInit ==
  /\ state = LegacyState
  /\ tasks = {}
  /\ toasts = 0
  /\ nOps = 0
  /\ mounted = FALSE
  /\ lastOp = None
  /\ lastEvent = None
  /\ reduceCalls = {}
  /\ DebounceIdle
  /\ LegacyIdle
  /\ CollectIdle
  /\ IntersectIdle
  /\ ColumnsIdle
  /\ ProjectIdle
  /\ ServerIdle
  /\ GridIdle

\* invokeFunc: the wrapped getIndices runs up to its await: it sets
\* isLoading and sends the backend request
InvokeFunc ==
  /\ dLastArgs' = FALSE
  /\ dInvokes' = Append(dInvokes, dNow)
  /\ state' = [state EXCEPT !.isLoading = TRUE]
  /\ tasks' = tasks \cup
                {PendingCall(Len(dInvokes), "list", "indices", "", None, <<>>, None)}

\* a call of this.getIndices() (the first one is componentDidMount's)
DebouncedCall ==
  /\ Len(dCalls) < MaxCalls
  /\ mounted' = TRUE
  /\ dCalls' = Append(dCalls, dNow)
  /\ dLastCallTime' = Some(dNow)
  /\ lastEvent' = Some(Event("getIndices", Len(dCalls), None, "called"))
  /\ IF shouldInvoke(dNow) /\ dTimer = None
       THEN \* leadingEdge
            /\ dTimer' = Some(dNow + debounceWait)
            /\ IF DebounceLeading
                 THEN InvokeFunc
                 ELSE dLastArgs' = TRUE /\ UNCHANGED <<dInvokes, state, tasks>>
       ELSE /\ dLastArgs' = TRUE
            /\ dTimer' = IF dTimer = None THEN Some(dNow + debounceWait) ELSE dTimer
            /\ UNCHANGED <<dInvokes, state, tasks>>
  /\ UNCHANGED <<dNow, toasts, nOps, lastOp, reduceCalls, legacyVars, serverVars,
                 gridVars, collectVars, intersectVars, columnsVars, projectVars>>

\* timerExpired: the trailing edge, or a restart for the remaining wait
TimerExpired ==
  /\ IsSome(dTimer)
  /\ dNow >= Get(dTimer)
  /\ lastEvent' = Some(Event("timerExpired", Len(dInvokes), None, "called"))
  /\ IF shouldInvoke(dNow)
       THEN \* trailingEdge
            /\ dTimer' = None
            /\ IF DebounceTrailing /\ dLastArgs
                 THEN InvokeFunc
                 ELSE dLastArgs' = FALSE /\ UNCHANGED <<dInvokes, state, tasks>>
       ELSE /\ dTimer' = Some(dNow + remainingWait(dNow))
            /\ UNCHANGED <<dLastArgs, dInvokes, state, tasks>>
  /\ UNCHANGED <<dNow, dLastCallTime, dCalls, mounted, toasts, nOps, lastOp,
                 reduceCalls, legacyVars, serverVars, gridVars,
                 collectVars, intersectVars, columnsVars, projectVars>>

\* the clock advances
Tick ==
  /\ dNow < MaxTicks * TickMs
  /\ ~(IsSome(dTimer) /\ Get(dTimer) <= dNow)
  /\ dNow' = dNow + TickMs
  /\ UNCHANGED <<dLastCallTime, dLastArgs, dTimer, dCalls, dInvokes, orchVars,
                 legacyVars, serverVars, gridVars,
                 collectVars, intersectVars, columnsVars, projectVars>>

DebounceNext ==
  DebouncedCall \/ TimerExpired \/ Tick \/ LegacyGetIndicesResponse

SpecDebounce == DebounceInit /\ [][DebounceNext]_vars

\* the backend answers every request, timers fire and time passes; nobody
\* is obliged to call getIndices again
SpecDebounceLive ==
  /\ SpecDebounce
  /\ WF_vars(LegacyGetIndicesResponse)
  /\ WF_vars(TimerExpired)
  /\ WF_vars(Tick)

\* the number of bursts: maximal runs of calls less than debounceWait apart
BurstCount(calls) ==
  IF calls = <<>> THEN 0
  ELSE 1 + Cardinality({ i \in 1..(Len(calls) - 1) :
                           calls[i + 1] - calls[i] >= debounceWait })

\* time t lies inside a burst: a later call of the same burst follows it
MidBurst(calls, t) ==
  \E i \in 1..(Len(calls) - 1) :
    /\ calls[i] <= t
    /\ t < calls[i + 1]
    /\ calls[i + 1] - calls[i] < debounceWait

\* no timer is pending: every burst so far has ended and been served
DebounceQuiet == dTimer = None

C21_TwoRequestsForOneBurst ==
  /\ DebounceQuiet
  /\ BurstCount(dCalls) = 1
  /\ Len(dCalls) = 2
  /\ Len(dInvokes) = 2
  /\ dInvokes[1] < dCalls[2]

\* what the debounce does guarantee: every burst causes at least one and at
\* most two backend requests
C21_AtMostTwoPerBurst ==
  DebounceQuiet =>
    /\ BurstCount(dCalls) <= Len(dInvokes)
    /\ Len(dInvokes) <= 2 * BurstCount(dCalls)

\* some listIndices request was sent and none is waiting for its answer
ListCallsCompleted == dInvokes # <<>> /\ InFlight("list") = {}

\* C26: after every listIndices call has completed, with whatever outcome,
\* the isLoading flag is eventually false again.
C26_LoadingEventuallyFalse == ListCallsCompleted ~> ~state.isLoading

\* the index selector stuck in the loading state: every request has been
\* answered, the last one with a failure, and isLoading is still true
C26_StuckLoading ==
  /\ ListCallsCompleted
  /\ DebounceQuiet
  /\ state.isLoading
  /\ toasts > 0

\* when the call succeeded the flag is false at once
C26_FalseAfterSuccess ==
  [][LastStepWas("getIndicesResponse", "ok")' => ~state'.isLoading]_vars


(***************************************************************************)
(* The schema of the search box.  The first container of part_000 stores   *)
(* it with the columns, its second container derives it from the columns   *)
(* in render, the container of part_001 renders a fixed one.               *)
(***************************************************************************)
\* the schema built in render of part_001
Part001Schema ==
  [strict |-> TRUE,
   fields |-> [ f \in {"indices", "data_streams"} |-> [type |-> "string"] ]]

\* the ids of a column list
ColumnIds(columns) == { columns[j].id : j \in 1..Len(columns) }

\* each current column id mapped to {type: "string"}, and nothing else
StringFieldsOf(columns) == [ c \in ColumnIds(columns) |-> [type |-> "string"] ]

\* a selectIndex of the part_001 container has completed and stored columns
Part001SelectCompleted == state.columns # <<>>

\* C22: in every state after a selectIndex has completed the schema's field
\* set is the set of current column ids, each mapped to {type: "string"}.
C22_SchemaFieldsAreColumnIds ==
  Part001SelectCompleted => Part001Schema.fields = StringFieldsOf(state.columns)

\* the part_001 container showing the columns of an index with a schema
\* that knows none of them
C22_SchemaKnowsNoColumn ==
  /\ Part001SelectCompleted
  /\ ColumnIds(state.columns) \cap DOMAIN Part001Schema.fields = {}

\* in the containers of part_000 the schema is that of the current columns:
\* the stored one, and the one its second container derives in render
C22_Part000SchemaOfColumns ==
  /\ IsSome(state.schema) => Get(state.schema).fields = StringFieldsOf(state.columns)
  /\ SchemaOf(state.columns).fields = StringFieldsOf(state.columns)


(***************************************************************************)
(* Row fetches of the container of part_000 (Spec).                        *)
(***************************************************************************)
\* the row fetches a step issues: the invocations newly waiting for the
\* answer of indexService.searchIndexData
IssuedRowFetches == { t \in tasks' : t.pc = "search" /\ t \notin tasks }

\* C23: a row fetch is issued only for a selected index whose mapping fetch
\* has succeeded: selectIndex issues it only on a successful mapping answer,
\* applyFilter only when an index is selected.
C23_RowFetchOnlyAfterMappings ==
  [][\A t \in IssuedRowFetches :
       IF t.kind = "select"
         THEN Get(lastEvent').outcome \in {"ok", "okNoIndex"}
         ELSE IndexSelected]_vars

\* a selectIndex whose mapping fetch has failed waiting for its row fetch
C23_RowFetchAfterFailedMappings ==
  /\ LastStepWas("getMappingsResponse", "notOk")
  /\ toasts > 0
  /\ \E t \in tasks : /\ t.id = Get(lastEvent).id
                       /\ t.kind = "select"
                       /\ t.pc = "search"
                       /\ t.columns = <<>>

\* applyFilter issues a row fetch only when an index is selected
C23_FilterOnlyWhenSelected ==
  [][\A t \in IssuedRowFetches : t.kind = "filter" => IndexSelected]_vars

\* C24: a successful row fetch that returns zero documents, of selectIndex
\* or of applyFilter, stores the empty row set and raises no notification;
\* selectIndex stores with it the columns and the selection of its index,
\* applyFilter leaves columns and selection as they are.
C24_ZeroDocumentsIsNoError ==
  [][\A t \in tasks \ tasks' :
       /\ LastStepWas("searchResponse", "ok")'
       /\ searchIndexData(Get(t.req)).results = <<>>
       => /\ state'.raw_data = Some(<<>>)
          /\ toasts' = toasts
          /\ IF t.kind = "select"
               THEN /\ state'.columns = t.columns
                    /\ state'.sourceIndex = t.value
               ELSE /\ state'.columns = state.columns
                    /\ state'.sourceIndex = state.sourceIndex]_vars

\* witness of C24: a filter on idx2 that matches none of its documents has
\* answered: no rows, no notification, idx2 and its columns still shown.
C24_Witness ==
  /\ LastStepWas("searchResponse", "ok")
  /\ Get(lastEvent).arg = "filter"
  /\ state.sourceIndex = Some(<<Option("idx2")>>)
  /\ state.columns = mapToColumns(MappingsOf("idx2"))
  /\ state.columns # <<>>
  /\ state.raw_data = Some(<<>>)
  /\ toasts = 0
  /\ tasks = {}

\* witness of C24 (selectIndex): the empty index idx3 selected, its
\* columns shown with no rows and no notification.
C24_WitnessSelect ==
  /\ LastStepWas("searchResponse", "ok")
  /\ Get(lastEvent).arg = "select"
  /\ state.sourceIndex = Some(<<Option("idx3")>>)
  /\ state.columns = mapToColumns(MappingsOf("idx3"))
  /\ state.columns # <<>>
  /\ state.raw_data = Some(<<>>)
  /\ toasts = 0

\* the rows a row fetch on srcIndex can return, projected on columns
RowSetsOf(srcIndex, columns) ==
  { mapDataToTable(SearchResults(srcIndex, query), columns) :
      query \in {None} \cup { Some(q) : q \in Queries } }

\* C25: in every reachable state, under any interleaving of selectIndex and
\* applyFilter, every displayed row has exactly the current column ids as
\* its keys and the rows were fetched from the currently selected index.
C25_RowsMatchColumnsAndIndex ==
  IndexSelected /\ IsSome(state.raw_data) =>
    LET rows == Get(state.raw_data)
    IN  /\ \A i \in 1..Len(rows) : DOMAIN rows[i] = ColumnIds(state.columns)
        /\ rows \in RowSetsOf(Get(state.sourceIndex)[1].value, state.columns)

\* idx2 is selected and its columns are shown, over the rows of a filter on
\* idx1 whose answer arrived after the selection of idx2 had completed
C25_RowsOfOtherIndex ==
  /\ LastStepWas("searchResponse", "ok")
  /\ Get(lastEvent).arg = "filter"
  /\ state.sourceIndex = Some(<<Option("idx2")>>)
  /\ state.columns = mapToColumns(MappingsOf("idx2"))
  /\ IsSome(state.raw_data)
  /\ Get(state.raw_data) \in RowSetsOf("idx1", mapToColumns(MappingsOf("idx1")))
  /\ Get(state.raw_data) # <<>>
  /\ toasts = 0

\* while no selectIndex is in flight when a filter is issued or answered,
\* the rows shown have the current columns as keys
C25_WithoutOverlap ==
  [][/\ LastStepWas("searchResponse", "ok")'
     /\ Get(lastEvent').arg = "filter"
     /\ \A t \in tasks \ tasks' : t.clean /\ t.columns = state.columns
     => \A i \in 1..Len(Get(state'.raw_data)) :
          DOMAIN Get(state'.raw_data)[i] = ColumnIds(state'.columns)]_vars


(***************************************************************************)
(* SpecFunction: the function component of part_001.  Its whole state is   *)
(* one useState object; setState(obj) replaces the object, and only the    *)
(* functional update of onSearchChange spreads the previous state.  A      *)
(* member the object lacks is None (undefined).  The handlers getColumns,  *)
(* getData and onSearchChange read as those of the part_000 container.     *)
(***************************************************************************)
FnInitialState ==
  [indices |-> Some(<<>>), columns |-> <<>>, raw_data |-> Some(<<>>),
   query |-> Some(""), sourceIndex |-> None, schema |-> None]

FnInit ==
  /\ state = FnInitialState
  /\ tasks = {}
  /\ toasts = 0
  /\ nOps = 0
  /\ mounted = FALSE
  /\ lastOp = None
  /\ lastEvent = None
  /\ reduceCalls = {}
  /\ CollectIdle
  /\ IntersectIdle
  /\ ExtraIdle

\* the options the combo box offers: state.indices, none when undefined
FnOptions == IF IsSome(state.indices) THEN Get(state.indices) ELSE <<>>

\* getIndices of the effect resumes with the answer of the backend;
\* `state` is the one of the first render
FnGetIndicesResponse ==
  \E t \in InFlight("list"), outcome \in {"ok", "notOk", "throws"} :
    /\ tasks' = tasks \ {t}
    /\ lastEvent' = Some(Event("getIndicesResponse", t.id, None, outcome))
    /\ state' = IF outcome = "ok"
                  THEN [FnInitialState EXCEPT !.indices =
                          Some([ i \in 1..Len(BackendIndices) |->
                                   Option(BackendIndices[i]) ])]
                  ELSE state
    /\ toasts' = IF outcome = "ok" THEN toasts ELSE toasts + 1
    /\ UNCHANGED <<nOps, mounted, lastOp, reduceCalls, collectVars, intersectVars, extraVars>>

\* onIndexChange(value) up to the await in getColumns
FnOnIndexChange ==
  /\ nOps < MaxOps
  /\ nOps' = nOps + 1
  /\ \E value \in {<<>>} \cup { <<FnOptions[i]>> : i \in 1..Len(FnOptions) } :
      /\ lastEvent' = Some(Event("onIndexChange", nOps + 1, value, "called"))
      /\ IF value = <<>> \/ value[1].value = ""
         THEN UNCHANGED <<tasks, lastOp>>
         ELSE /\ tasks' = tasks \cup
                   {Task(nOps + 1, "select", "mappings", value[1].value, Some(value),
                         <<>>, None, TRUE)}
              /\ lastOp' = Some([kind |-> "select", arg |-> value[1].value,
                                 overlapped |-> FALSE])
  /\ UNCHANGED <<state, toasts, mounted, reduceCalls, collectVars, intersectVars, extraVars>>

\* getData resumes with the answer of indexService.searchIndexData:
\* onIndexChange replaces the state object, onSearchChange updates raw_data
FnSearchResponse ==
  \E t \in { t \in tasks : t.pc = "search" }, outcome \in {"ok", "notOk", "throws"} :
    LET raw_data == IF outcome = "ok"
                      THEN Some(mapDataToTable(searchIndexData(Get(t.req)).results,
                                               t.columns))
                      ELSE None
    IN  /\ toasts' = IF outcome = "ok" THEN toasts ELSE toasts + 1
        /\ tasks' = tasks \ {t}
        /\ lastEvent' = Some(Event("searchResponse", t.id, t.kind, outcome))
        /\ state' = IF t.kind = "select"
                      THEN [indices |-> None, query |-> None,
                            columns |-> t.columns, raw_data |-> raw_data,
                            sourceIndex |-> t.value,
                            schema |-> Some(SchemaOf(t.columns))]
                      ELSE [state EXCEPT !.raw_data = raw_data]
        /\ UNCHANGED <<nOps, mounted, lastOp, reduceCalls, collectVars, intersectVars, extraVars>>

FnNext ==
  \/ ComponentDidMount
  \/ FnGetIndicesResponse
  \/ FnOnIndexChange
  \/ MappingsResponse
  \/ OnSearchChange
  \/ FnSearchResponse

SpecFunction == FnInit /\ [][FnNext]_vars

\* the step belongs to a selectIndex: its call, its mapping answer or its
\* row answer
SelectIndexStep ==
  /\ IsSome(lastEvent')
  /\ \/ Get(lastEvent').op \in {"onIndexChange", "getMappingsResponse"}
     \/ Get(lastEvent').op = "searchResponse" /\ Get(lastEvent').arg = "select"

\* C27: selectIndex changes only selection, columns, rows and schema: the
\* index list offered for selection is the same after it as before, in the
\* class components and in the function component.
C27_SelectKeepsIndexList == [][SelectIndexStep => state'.indices = state.indices]_vars

\* the function component after a selectIndex: an index is selected and
\* the list it was chosen from is gone
C27_IndexListLost ==
  /\ IsSome(state.sourceIndex)
  /\ state.indices = None
  /\ FnOptions = <<>>
  /\ LastStepWas("searchResponse", "ok")


(***************************************************************************)
(* SpecGrid: the IndexPreview component below the container of part_000.   *)
(* The container renders it with its columns and raw_data while raw_data   *)
(* holds at least one row; React keeps the mounted instance, and with it   *)
(* the three useState values, as long as every render of the container     *)
(* yields the element, and drops it when a render does not.  gProps are    *)
(* the selection, columns and raw_data of the container's last setState.   *)
(***************************************************************************)
InitialPageSize == 10

PageSizeOptions == {10, 50, 100}

GridBigDocs == 25

\* the documents of the indices: idx1 fills several pages
GridDocumentsOf(srcIndex) ==
  IF srcIndex = "idx1"
    THEN [ i \in 1..GridBigDocs |->
             [f \in {"level", "message"} |->
                IF f = "level" THEN (IF i = 1 THEN "error" ELSE "info") ELSE "m"] ]
    ELSE DocumentsOf(srcIndex)

GridSearchResults(srcIndex, query) ==
  IF query = None THEN GridDocumentsOf(srcIndex)
  ELSE SelectSeq(GridDocumentsOf(srcIndex),
                 LAMBDA d : d["level"] = QueryValue(Get(query)))

\* columns.map(({ id }) => id)
IdsOf(columns) == [ j \in 1..Len(columns) |-> columns[j].id ]

\* raw_data && raw_data.length > 0
ShowsGrid(props) == IsSome(props.raw_data) /\ Len(Get(props.raw_data)) > 0

\* rowCount of the grid
RowCount == IF IsSome(Get(gProps).raw_data) THEN Len(Get(Get(gProps).raw_data)) ELSE 0

\* the pages the grid offers for the rows and page size it has
PageCount ==
  (RowCount + gPagination.pageSize - 1) \div gPagination.pageSize

\* onChangeItemsPerPage that keeps the page
PaginationKeepingPage(pagination, pageSize) ==
  [pagination EXCEPT !.pageSize = pageSize]

\* pagination => ({...pagination, pageSize, pageIndex: 0})
PaginationWithPageSize(pagination, pageSize) ==
  [pagination EXCEPT !.pageSize = pageSize, !.pageIndex = 0]

\* pagination => ({...pagination, pageIndex})
PaginationWithPageIndex(pagination, pageIndex) ==
  [pagination EXCEPT !.pageIndex = pageIndex]

GridInit ==
  /\ gProps = None
  /\ gMounted = FALSE
  /\ gPagination = None
  /\ gSortingColumns = <<>>
  /\ gVisibleColumns = <<>>
  /\ gToggled = FALSE
  /\ OrchIdle
  /\ CollectIdle
  /\ IntersectIdle
  /\ ColumnsIdle
  /\ ProjectIdle
  /\ LegacyIdle
  /\ ServerIdle
  /\ DebounceIdle

\* the container renders with new columns / raw_data: IndexPreview is
\* mounted (its useState initial values are taken), re-rendered (its
\* state is kept) or unmounted
RenderWith(props) ==
  /\ gProps' = Some(props)
  /\ gMounted' = ShowsGrid(props)
  /\ IF ShowsGrid(props)
       THEN IF gMounted
              THEN UNCHANGED <<gPagination, gSortingColumns, gVisibleColumns, gToggled>>
              ELSE /\ gPagination' = [pageIndex |-> 0, pageSize |-> InitialPageSize]
                   /\ gSortingColumns' = <<>>
                   /\ gVisibleColumns' = IdsOf(props.columns)
                   /\ gToggled' = FALSE
       ELSE /\ gPagination' = None
            /\ gSortingColumns' = <<>>
            /\ gVisibleColumns' = <<>>
            /\ gToggled' = FALSE

\* a selectIndex of the container has completed: setState({columns,
\* raw_data, sourceIndex, schema}); raw_data is undefined when the row
\* fetch failed
GridSelectIndex ==
  /\ nOps < MaxOps
  /\ nOps' = nOps + 1
  /\ \E srcIndex \in { BackendIndices[i] : i \in 1..Len(BackendIndices) },
        outcome \in {"ok", "notOk"} :
       LET columns == mapToColumns(MappingsOf(srcIndex))
       IN  /\ lastEvent' = Some(Event("selectIndex", nOps + 1, srcIndex, outcome))
           /\ RenderWith([srcIndex |-> srcIndex, columns |-> columns,
                          raw_data |-> IF outcome = "ok"
                                         THEN Some(mapDataToTable(
                                                GridSearchResults(srcIndex, None), columns))
                                         ELSE None])
  /\ UNCHANGED <<state, tasks, toasts, mounted, lastOp, reduceCalls, collectVars,
                 intersectVars, columnsVars, projectVars, legacyVars, serverVars,
                 debounceVars>>

\* an applyFilter of the container has completed: setState({raw_data})
GridApplyFilter ==
  /\ nOps < MaxOps
  /\ nOps' = nOps + 1
  /\ IsSome(gProps)
  /\ \E q \in Queries :
       LET props == Get(gProps)
       IN  /\ lastEvent' = Some(Event("applyFilter", nOps + 1, q, "ok"))
           /\ RenderWith([props EXCEPT !.raw_data =
                            Some(mapDataToTable(
                                   GridSearchResults(props.srcIndex, Some(q)),
                                   props.columns))])
  /\ UNCHANGED <<state, tasks, toasts, mounted, lastOp, reduceCalls, collectVars,
                 intersectVars, columnsVars, projectVars, legacyVars, serverVars,
                 debounceVars>>

\* onChangeItemsPerPage(pageSize)
OnChangeItemsPerPage ==
  /\ gMounted
  /\ \E pageSize \in PageSizeOptions :
       /\ gPagination' = PaginationWithPageSize(gPagination, pageSize)
       /\ lastEvent' = Some(Event("onChangeItemsPerPage", nOps, pageSize, "called"))
  /\ UNCHANGED <<gProps, gMounted, gSortingColumns, gVisibleColumns, gToggled,
                 state, tasks, toasts, nOps, mounted, lastOp, reduceCalls,
                 collectVars, intersectVars, columnsVars, projectVars, legacyVars,
                 serverVars, debounceVars>>

\* onChangePage(pageIndex), for a page the grid offers
OnChangePage ==
  /\ gMounted
  /\ \E pageIndex \in 0..(PageCount - 1) :
       /\ gPagination' = PaginationWithPageIndex(gPagination, pageIndex)
       /\ lastEvent' = Some(Event("onChangePage", nOps, pageIndex, "called"))
  /\ UNCHANGED <<gProps, gMounted, gSortingColumns, gVisibleColumns, gToggled,
                 state, tasks, toasts, nOps, mounted, lastOp, reduceCalls,
                 collectVars, intersectVars, columnsVars, projectVars, legacyVars,
                 serverVars, debounceVars>>

\* onSort(sortingColumns): no sorting, or one of the columns up or down
OnSort ==
  /\ gMounted
  /\ \E sorting \in {<<>>} \cup
        { <<[id |-> Get(gProps).columns[j].id, direction |-> d]>> :
            j \in 1..Len(Get(gProps).columns), d \in {"asc", "desc"} } :
       /\ gSortingColumns' = sorting
       /\ lastEvent' = Some(Event("onSort", nOps, sorting, "called"))
  /\ UNCHANGED <<gProps, gMounted, gPagination, gVisibleColumns, gToggled,
                 state, tasks, toasts, nOps, mounted, lastOp, reduceCalls,
                 collectVars, intersectVars, columnsVars, projectVars, legacyVars,
                 serverVars, debounceVars>>

\* setVisibleColumns(ids): the grid's column selector shows all columns or
\* hides one of them
SetVisibleColumns ==
  /\ gMounted
  /\ LET ids == IdsOf(Get(gProps).columns)
     IN  \E visible \in {ids} \cup
               { SelectSeq(ids, LAMBDA c : c # ids[j]) : j \in 1..Len(ids) } :
           /\ gVisibleColumns' = visible
           /\ lastEvent' = Some(Event("setVisibleColumns", nOps, visible, "called"))
  /\ gToggled' = TRUE
  /\ UNCHANGED <<gProps, gMounted, gPagination, gSortingColumns,
                 state, tasks, toasts, nOps, mounted, lastOp, reduceCalls,
                 collectVars, intersectVars, columnsVars, projectVars, legacyVars,
                 serverVars, debounceVars>>

GridNext ==
  \/ GridSelectIndex
  \/ GridApplyFilter
  \/ OnChangeItemsPerPage
  \/ OnChangePage
  \/ OnSort
  \/ SetVisibleColumns

SpecGrid == GridInit /\ [][GridNext]_vars

\* C28: whenever the preview grid is displayed (and the user has not
\* hidden a column), its visible-column list is the list of ids of the
\* current columns, also after a second selectIndex on a displayed grid.
C28_VisibleColumnsAreColumnIds ==
  gMounted /\ ~gToggled => gVisibleColumns = IdsOf(Get(gProps).columns)

\* the grid shows idx2 after idx1 with the visible columns of idx1
C28_StaleVisibleColumns ==
  /\ gMounted
  /\ ~gToggled
  /\ Get(gProps).srcIndex = "idx2"
  /\ gVisibleColumns = IdsOf(mapToColumns(MappingsOf("idx1")))
  /\ gVisibleColumns # IdsOf(Get(gProps).columns)

\* at the mount of the grid the visible columns are the column ids
C28_AtMount ==
  [][~gMounted /\ gMounted' => gVisibleColumns' = IdsOf(Get(gProps').columns)]_vars

\* C29: changing the page size sets pageSize and resets pageIndex to 0,
\* changing the page sets pageIndex and keeps pageSize; neither changes
\* the sorting columns or the visible columns; the grid starts at
\* pageIndex 0 with pageSize 10.
C29_PaginationFrame ==
  [][/\ LastStepWas("onChangeItemsPerPage", "called")' =>
          /\ gPagination' = [pageIndex |-> 0, pageSize |-> Get(lastEvent').arg]
          /\ gSortingColumns' = gSortingColumns
          /\ gVisibleColumns' = gVisibleColumns
     /\ LastStepWas("onChangePage", "called")' =>
          /\ gPagination' = [pageIndex |-> Get(lastEvent').arg,
                              pageSize |-> gPagination.pageSize]
          /\ gSortingColumns' = gSortingColumns
          /\ gVisibleColumns' = gVisibleColumns
     /\ ~gMounted /\ gMounted' =>
          gPagination' = [pageIndex |-> 0, pageSize |-> 10]]_vars

\* witness of C29: the page size was changed while page 2 of a sorted grid
\* with a hidden column was shown: page 0, the sorting and the hidden
\* column as before.
C29_Witness ==
  /\ LastStepWas("onChangeItemsPerPage", "called")
  /\ gMounted
  /\ gPagination = [pageIndex |-> 0, pageSize |-> 50]
  /\ gSortingColumns # <<>>
  /\ gToggled
  /\ Len(gVisibleColumns) < Len(Get(gProps).columns)
  /\ RowCount = GridBigDocs

\* witness of C29 (page change): page 2 of three at page size 10
C29_WitnessPage ==
  /\ LastStepWas("onChangePage", "called")
  /\ gPagination = [pageIndex |-> 2, pageSize |-> 10]
  /\ gSortingColumns # <<>>


(***************************************************************************)
(* The index listing of the server (SpecServer) without data streams.      *)
(***************************************************************************)
\* the handler has answered a listing without data streams, no call threw
ListedWithoutDataStreams ==
  /\ ServerDone
  /\ Get(sReq).handler = "getIndices"
  /\ sErr = None
  /\ ~Get(sReq).showDataStreams

\* the positions of the cluster's rows that belong to no data stream
PlainPositions == { i \in 1..Len(sCat) : sCat[i].data_stream = None }

\* C30: with showDataStreams = false the indices of a data stream are
\* removed before pagination: no returned index has a data stream, the
\* page is the slice [from, from + size) of the filtered list in backend
\* order, and totalIndices is the length of the whole filtered list.
C30_DataStreamsFilteredBeforePaging ==
  ListedWithoutDataStreams =>
    LET page == Get(sResp).response.indices
        from == Get(sReq).from
        size == Get(sReq).size
        \* the position in sCat of the k-th index without a data stream
        nth(k) == CHOOSE i \in PlainPositions :
                    Cardinality({ j \in PlainPositions : j <= i }) = k
        rest == Cardinality(PlainPositions) - from
    IN  /\ Get(sResp).ok
        /\ \A k \in 1..Len(page) : page[k].data_stream = None
        /\ Len(page) = IF rest <= 0 THEN 0 ELSE IF rest < size THEN rest ELSE size
        /\ Len(page) <= size
        /\ \A k \in 1..Len(page) : page[k].index = sCat[nth(from + k)].index
        /\ Get(sResp).response.totalIndices = Cardinality(PlainPositions)

\* witness of C30: three indices, the first in a data stream; the page
\* from 1 of size 1 holds the third index only, and totalIndices is 2:
\* neither the length of the page nor that of the unfiltered list.
C30_Witness ==
  /\ ListedWithoutDataStreams
  /\ Len(sCat) = 3
  /\ sCat[1].data_stream # None
  /\ Cardinality(PlainPositions) = 2
  /\ Get(sReq).from = 1
  /\ Get(sReq).size = 1
  /\ Len(Get(sResp).response.indices) = 1
  /\ Get(sResp).response.indices[1].index = sCat[3].index
  /\ Get(sResp).response.totalIndices = 2

====
